---- MODULE Spec2Model ----
\* Verification model of the template-filler resolution-and-evaluation engine
\* (src/lib/evaluator.js) and of the App component that drives it (src/App.jsx).
\*
\* Conventions
\*   - A JavaScript string is a sequence of one-character strings.
\*   - A JavaScript value (a table cell as XLSX hands it over, a field of an
\*     object) is a tagged value: JsNum(n), JsStr(s), Null or Undefined (a blank
\*     cell of a sparse row, or an index outside the row).
\*   - A JavaScript number is Fin(n), NaN or Infinity.
\*   - Column indices are zero-based as in the source; -1 is "not found".
EXTENDS Integers, Sequences, FiniteSets

(***************************************************************************)
(* JavaScript primitives                                                   *)
(***************************************************************************)

UpperChars == <<"A","B","C","D","E","F","G","H","I","J","K","L","M",
                "N","O","P","Q","R","S","T","U","V","W","X","Y","Z">>

LowerChars == <<"a","b","c","d","e","f","g","h","i","j","k","l","m",
                "n","o","p","q","r","s","t","u","v","w","x","y","z">>

DigitChars == <<"0","1","2","3","4","5","6","7","8","9">>

JsNum(n) == [t |-> "num", s |-> <<>>, n |-> n]

JsStr(s) == [t |-> "str", s |-> s, n |-> 0]

Undefined == [t |-> "undef", s |-> <<>>, n |-> 0]

Null == [t |-> "null", s |-> <<>>, n |-> 0]

Fin(n) == [k |-> "fin", n |-> n]

NaN == [k |-> "nan", n |-> 0]

Infinity == [k |-> "inf", n |-> 0]

isFinite(x) == x.k = "fin"

\* the one element of a singleton set.  An operator written
\*   f(x_) == Only({(e) : x \in {x_}})
\* computes its argument once and then e from that value, as a JavaScript call does.
Only(S) == CHOOSE v \in S : TRUE

\* The elements of s at the positions in keep, in order.
RECURSIVE PickFrom(_, _, _)
PickFrom(s_, keep_, i_) ==
  Only({(
      IF i > Len(s) THEN <<>>
      ELSE (IF i \in keep THEN <<s[i]>> ELSE <<>>) \o PickFrom(s, keep, i + 1)
    ) : s \in {s_}, keep \in {keep_}, i \in {i_}})

\* the lower-case form of every upper-case letter
LowerOf == [c \in {UpperChars[k] : k \in 1..26} |->
              LowerChars[CHOOSE k \in 1..26 : UpperChars[k] = c]]

lowerChar(c_) ==
  Only({(IF c \in DOMAIN LowerOf THEN LowerOf[c] ELSE c) : c \in {c_}})

\* String.prototype.toLowerCase
toLowerCase(s_) ==
  Only({([i \in 1..Len(s) |-> lowerChar(s[i])]) : s \in {s_}})

\* String.prototype.trimStart and trimEnd (the only white space used here is the blank)
RECURSIVE trimStart(_)
trimStart(s_) ==
  Only({(IF s # <<>> /\ Head(s) = " " THEN trimStart(Tail(s)) ELSE s) : s \in {s_}})

RECURSIVE trimEnd(_)
trimEnd(s_) ==
  Only({(
      IF s # <<>> /\ s[Len(s)] = " " THEN trimEnd(SubSeq(s, 1, Len(s) - 1)) ELSE s
    ) : s \in {s_}})

\* String.prototype.trim
trim(s) == trimEnd(trimStart(s))

\* s.replace(/\s+/g, " ")
collapseSpaces(s_) ==
  Only({(
      IF \A i \in 2..Len(s) : ~(s[i] = " " /\ s[i-1] = " ") THEN s
      ELSE PickFrom(s, {i \in 1..Len(s) : ~(s[i] = " " /\ i > 1 /\ s[i-1] = " ")}, 1)
    ) : s \in {s_}})

\* s.replace(/_/g, " ")
underscoresToSpaces(s_) ==
  Only({([i \in 1..Len(s) |-> IF s[i] = "_" THEN " " ELSE s[i]]) : s \in {s_}})

\* Decimal digits of a natural number: String(n)
RECURSIVE digitsOf(_)
digitsOf(n_) ==
  Only({(
      IF n < 10 THEN <<DigitChars[n + 1]>>
      ELSE digitsOf(n \div 10) \o <<DigitChars[(n % 10) + 1]>>
    ) : n \in {n_}})

\* String(v)
JsString(v_) ==
  Only({(
      CASE v.t = "str" -> v.s
        [] v.t = "num" -> digitsOf(v.n)
        [] v.t = "null" -> <<"n","u","l","l">>
        [] OTHER -> <<"u","n","d","e","f","i","n","e","d">>
    ) : v \in {v_}})

\* JavaScript truthiness of a cell: "", 0 and undefined are falsy.
Truthy(v_) ==
  Only({(
      CASE v.t = "str" -> v.s # <<>>
        [] v.t = "num" -> v.n # 0
        [] OTHER -> FALSE
    ) : v \in {v_}})

DigitValueOf == [c \in {DigitChars[k] : k \in 1..10} |->
                   (CHOOSE k \in 1..10 : DigitChars[k] = c) - 1]

isDigit(c_) ==
  Only({(c \in DOMAIN DigitValueOf) : c \in {c_}})

digitValue(c) == DigitValueOf[c]

RECURSIVE decimalValue(_)
decimalValue(s_) ==
  Only({(
      IF s = <<>> THEN 0
      ELSE 10 * decimalValue(SubSeq(s, 1, Len(s) - 1)) + digitValue(s[Len(s)])
    ) : s \in {s_}})

\* Number(string): surrounding white space is ignored, "" is 0, a run of decimal
\* digits is its value, anything else (in the alphabets used here) is NaN.
numberOfTrimmed(u_) ==
  Only({(
      IF u = <<>> THEN Fin(0)
      ELSE IF \A i \in 1..Len(u) : isDigit(u[i]) THEN Fin(decimalValue(u))
      ELSE NaN
    ) : u \in {u_}})

StringToNumber(s) == numberOfTrimmed(trim(s))

\* Number(v)
JsNumber(v_) ==
  Only({(
      CASE v.t = "str" -> StringToNumber(v.s)
        [] v.t = "num" -> Fin(v.n)
        [] v.t = "null" -> Fin(0)
        [] OTHER -> NaN
    ) : v \in {v_}})

\* row[i] for a zero-based index; undefined outside the row
At(row_, i_) ==
  Only({(IF i >= 0 /\ i < Len(row) THEN row[i + 1] ELSE Undefined) : row \in {row_}, i \in {i_}})

\* aoa.slice(1)
DataRows(aoa_) ==
  Only({(SubSeq(aoa, 2, Len(aoa))) : aoa \in {aoa_}})

(***************************************************************************)
(* small helpers of evaluator.js                                           *)
(***************************************************************************)

isSeparator(c_) ==
  Only({(c \in {",", "|", ";"}) : c \in {c_}})

\* s.split(/[,|;]+/): the pieces between maximal runs of separators
RECURSIVE splitAt(_, _, _)
splitAt(s_, i_, cur_) ==
  Only({(
      IF i > Len(s) THEN <<cur>>
      ELSE IF isSeparator(s[i])
           THEN IF i > 1 /\ isSeparator(s[i-1]) THEN splitAt(s, i + 1, cur)
                ELSE <<cur>> \o splitAt(s, i + 1, <<>>)
           ELSE splitAt(s, i + 1, Append(cur, s[i]))
    ) : s \in {s_}, i \in {i_}, cur \in {cur_}})

\* the pieces trimmed, the empty ones dropped
trimmedPieces(parts_) ==
  Only({(
      PickFrom([i \in 1..Len(parts) |-> trim(parts[i])],
               {i \in 1..Len(parts) : trim(parts[i]) # <<>>}, 1)
    ) : parts \in {parts_}})

\* parseList(cell): split, trim every piece, drop the empty ones
parseList(cell_) ==
  Only({(
      IF cell.t \in {"undef", "null"} THEN <<>>
      ELSE trimmedPieces(splitAt(JsString(cell), 1, <<>>))
    ) : cell \in {cell_}})

\* canon(s): String(s || "").trim().replace(/\s+/g," ").replace(/_/g," ").toLowerCase()
canon(v_) ==
  Only({(
      LET s == IF Truthy(v) THEN JsString(v) ELSE <<>>
      IN toLowerCase(underscoresToSpaces(collapseSpaces(trim(s))))
    ) : v \in {v_}})

\* RegExp("^" + pattern + "$", "i").test(h) for the patterns used here: lower-case
\* literals and the token "\\s*"
RECURSIVE regexTest(_, _)
regexTest(pattern_, h_) ==
  Only({(
      IF pattern = <<>> THEN h = <<>>
      ELSE IF Head(pattern) = "\\s*"
           THEN regexTest(Tail(pattern), h)
                \/ (h # <<>> /\ Head(h) = " " /\ regexTest(pattern, Tail(h)))
           ELSE h # <<>> /\ lowerChar(Head(h)) = Head(pattern)
                /\ regexTest(Tail(pattern), Tail(h))
    ) : pattern \in {pattern_}, h \in {h_}})

RECURSIVE findColFrom(_, _, _)
findColFrom(headers_, namePattern_, i_) ==
  Only({(
      IF i >= Len(headers) THEN -1
      ELSE LET cell == headers[i + 1]
               raw == IF cell.t \in {"undef", "null"} THEN <<>> ELSE JsString(cell)
               h == trim(collapseSpaces(underscoresToSpaces(raw)))
           IN IF regexTest(namePattern, h) THEN i
              ELSE findColFrom(headers, namePattern, i + 1)
    ) : headers \in {headers_}, namePattern \in {namePattern_}, i \in {i_}})

\* findCol(headers, namePattern)
findCol(headers, namePattern) == findColFrom(headers, namePattern, 0)

\* toNum(v): Number(v) when finite, else null
finiteOrNull(n_) ==
  Only({(IF isFinite(n) THEN JsNum(n.n) ELSE Null) : n \in {n_}})

toNum(v) == finiteOrNull(JsNumber(v))

\* Array.from(new Set(xs)): first occurrences, in order
dedupeSeq(xs_) ==
  Only({(PickFrom(xs, {i \in 1..Len(xs) : \A j \in 1..(i-1) : xs[j] # xs[i]}, 1)) : xs \in {xs_}})

\* uniqNums(arr) for an array of strings: Number of each, de-duplicated, the
\* non-finite ones dropped; the result is an array of plain finite numbers
finiteValues(nums_) ==
  Only({(
      LET fin == PickFrom(nums, {i \in 1..Len(nums) : isFinite(nums[i])}, 1)
      IN [i \in 1..Len(fin) |-> fin[i].n]
    ) : nums \in {nums_}})

uniqNums(arr_) ==
  Only({(finiteValues(dedupeSeq([i \in 1..Len(arr) |-> StringToNumber(arr[i])]))) : arr \in {arr_}})

\* uniqNums(arr) for an array that already holds finite numbers
uniqNumsOfNumbers(arr) == dedupeSeq(arr)

\* a variant of sortAscending that leaves the array as it is
keepOrder(arr_) ==
  Only({(arr) : arr \in {arr_}})

\* arr.sort((a, b) => a - b) for an array of distinct finite numbers
RECURSIVE sortAscending(_)
sortAscending(arr_) ==
  Only({(
      IF arr = <<>> THEN <<>>
      ELSE LET m == CHOOSE i \in 1..Len(arr) : \A j \in 1..Len(arr) : arr[i] <= arr[j]
           IN <<arr[m]>> \o sortAscending(PickFrom(arr, (1..Len(arr)) \ {m}, 1))
    ) : arr \in {arr_}})

Range(s_) ==
  Only({({s[i] : i \in 1..Len(s)}) : s \in {s_}})

\* the object {}
EmptyMap == [k \in {} |-> 0]

(***************************************************************************)
(* column name patterns handed to findCol                                  *)
(***************************************************************************)

W_tag == <<"t","a","g">>
W_tags == <<"t","a","g","s">>
W_id == <<"i","d">>
W_pc == <<"p","c">>
W_category == <<"c","a","t","e","g","o","r","y">>
W_priority == <<"p","r","i","o","r","i","t","y">>
W_question == <<"q","u","e","s","t","i","o","n">>
W_entry == <<"e","n","t","r","y">>
W_type == <<"t","y","p","e">>
W_helper == <<"h","e","l","p","e","r">>
W_text == <<"t","e","x","t">>
W_name == <<"n","a","m","e">>
W_variable == <<"v","a","r","i","a","b","l","e">>
W_array == <<"a","r","r","a","y">>
W_object == <<"o","b","j","e","c","t">>
W_associated == <<"a","s","s","o","c","i","a","t","e","d">>
W_clause == <<"c","l","a","u","s","e">>
W_include == <<"i","n","c","l","u","d","e">>
W_exclude == <<"e","x","c","l","u","d","e">>
W_if == <<"i","f">>
W_list == <<"l","i","s","t">>
W_bool == <<"b","o","o","l">>
W_yes == <<"y","e","s">>
W_no == <<"n","o">>
W_display == <<"d","i","s","p","l","a","y">>
W_radio == <<"r","a","d","i","o">>
W_drop == <<"d","r","o","p">>
W_down == <<"d","o","w","n">>
W_select == <<"s","e","l","e","c","t">>

Ws == <<"\\s*">>

P_tag_id == W_tag \o Ws \o W_id
P_tag_category == W_tag \o Ws \o W_category
P_priority == W_priority
P_question == W_question
P_entry_type == W_entry \o Ws \o W_type
P_entry_category == W_entry \o Ws \o W_category
P_helper_text == W_helper \o Ws \o W_text
P_name == W_name
P_variable_array == W_variable \o Ws \o W_array
P_object_name == W_object \o Ws \o W_name
P_variable_type == W_variable \o Ws \o W_type
P_associated_clause_array == W_associated \o Ws \o W_clause \o Ws \o W_array
P_pc_id == W_pc \o Ws \o W_id
P_tags_array == W_tags \o Ws \o W_array
P_include_if_list == W_include \o Ws \o W_if \o Ws \o W_list
P_exclude_if_list == W_exclude \o Ws \o W_if \o Ws \o W_list

S_Text == <<"T","e","x","t">>

(***************************************************************************)
(* common table helpers                                                    *)
(***************************************************************************)

\* i === -1 ? 0 : i, for i = findCol(head, p)
idCol(i_) ==
  Only({(IF i = -1 THEN 0 ELSE i) : i \in {i_}})

\* idSet.has(n) for the set of the numbers ids
idIn(n_, ids_) ==
  Only({(isFinite(n) /\ n.n \in Range(ids)) : n \in {n_}, ids \in {ids_}})

\* filterTableByIds(aoa, ids)
filterTableByIds(aoa_, ids_) ==
  Only({(
      IF Len(aoa) = 0 THEN <<>>
      ELSE IF Len(ids) = 0 THEN <<aoa[1]>>
      ELSE <<aoa[1]>> \o PickFrom(DataRows(aoa),
                                   {i \in 1..(Len(aoa) - 1) : idIn(JsNumber(At(aoa[i + 1], 0)), ids)},
                                   1)
    ) : aoa \in {aoa_}, ids \in {ids_}})

\* Number(cell || Infinity): a falsy cell (blank, "", 0) reads as Infinity
numberOrInfinity(cell_) ==
  Only({(IF Truthy(cell) THEN JsNumber(cell) ELSE Infinity) : cell \in {cell_}})

\* the object shapeTagsInfo builds from the row r
shapeRow(r_, iId_, iCat_, iPri_, iQue_, iType_, iEC_, iHelp_) ==
  Only({(
      [Tag_ID |-> toNum(At(r, iId)),
       Tag_Category |-> IF iCat # -1 THEN At(r, iCat) ELSE JsStr(<<>>),
       Priority |-> IF iPri # -1 THEN numberOrInfinity(At(r, iPri)) ELSE Infinity,
       Question |-> IF iQue # -1 THEN At(r, iQue) ELSE JsStr(<<>>),
       Entry_Type |-> IF iType # -1 THEN At(r, iType) ELSE JsStr(S_Text),
       Entry_Category |-> IF iEC # -1 THEN At(r, iEC) ELSE JsStr(<<>>),
       Helper_Text |-> IF iHelp # -1 THEN At(r, iHelp) ELSE JsStr(<<>>)]
    ) : r \in {r_}, iId \in {iId_}, iCat \in {iCat_}, iPri \in {iPri_}, iQue \in {iQue_},
        iType \in {iType_}, iEC \in {iEC_}, iHelp \in {iHelp_}})

shapeRows(rows_, iId_, iCat_, iPri_, iQue_, iType_, iEC_, iHelp_) ==
  Only({(
      [i \in 1..Len(rows) |-> shapeRow(rows[i], iId, iCat, iPri, iQue, iType, iEC, iHelp)]
    ) : rows \in {rows_}, iId \in {iId_}, iCat \in {iCat_}, iPri \in {iPri_}, iQue \in {iQue_},
        iType \in {iType_}, iEC \in {iEC_}, iHelp \in {iHelp_}})

\* the column indices shapeTagsInfo looks up in the header row
tagColumns(head_) ==
  Only({(
      [k \in 1..7 |->
         findCol(head, <<P_tag_id, P_tag_category, P_priority, P_question, P_entry_type,
                         P_entry_category, P_helper_text>>[k])]
    ) : head \in {head_}})

shapeWith(rows_, cols_) ==
  Only({(
      shapeRows(rows, idCol(cols[1]), cols[2], cols[3], cols[4], cols[5], cols[6], cols[7])
    ) : rows \in {rows_}, cols \in {cols_}})

\* shapeTagsInfo(tagsAoA)
shapeTagsInfo(tagsAoA_) ==
  Only({(
      IF Len(tagsAoA) = 0 THEN <<>>
      ELSE shapeWith(DataRows(tagsAoA), tagColumns(tagsAoA[1]))
    ) : tagsAoA \in {tagsAoA_}})

\* dedupeByTagId(arr): first occurrence of every finite Number(Tag_ID)
firstPerId(arr_, ids_) ==
  Only({(
      PickFrom(arr,
               {i \in 1..Len(arr) : isFinite(ids[i]) /\ \A j \in 1..(i-1) : ids[j] # ids[i]},
               1)
    ) : arr \in {arr_}, ids \in {ids_}})

dedupeByTagId(arr_) ==
  Only({(firstPerId(arr, [i \in 1..Len(arr) |-> JsNumber(arr[i].Tag_ID)])) : arr \in {arr_}})

(***************************************************************************)
(* resolver: template -> clauses -> tags                                   *)
(***************************************************************************)

\* rows.find(pred), given row by row whether pred holds: index of the first hit, 0 when none
firstTrue(flags_) ==
  Only({(
      IF \E i \in 1..Len(flags) : flags[i]
      THEN CHOOSE i \in 1..Len(flags) : flags[i] /\ \A j \in 1..(i-1) : ~flags[j]
      ELSE 0
    ) : flags \in {flags_}})

\* the row at the highest of the positions hits, as <<row>>; <<>> when there is none
lastOf(rows_, hits_) ==
  Only({(
      IF hits = {} THEN <<>> ELSE <<rows[CHOOSE i \in hits : \A j \in hits : j <= i]>>
    ) : rows \in {rows_}, hits \in {hits_}})

\* new Map(rows.map(r => [Number(r[iKey]), r])).get(key): the last row with the key
lastRowWith(rows_, iKey_, key_) ==
  Only({(
      lastOf(rows, {i \in 1..Len(rows) : JsNumber(At(rows[i], iKey)) = Fin(key)})
    ) : rows \in {rows_}, iKey \in {iKey_}, key \in {key_}})

RECURSIVE flatten(_)
flatten(seqs_) ==
  Only({(IF seqs = <<>> THEN <<>> ELSE Head(seqs) \o flatten(Tail(seqs))) : seqs \in {seqs_}})

\* uniqNums(parseList(row[iList])) for a looked-up row; nothing when the row is missing
listOfRow(row_, iList_) ==
  Only({(
      IF row = <<>> THEN <<>> ELSE uniqNums(parseList(At(row[1], iList)))
    ) : row \in {row_}, iList \in {iList_}})

\* the loop "for (const pc of pcs) { row = map.get(pc); if (!row) continue; push(...) }"
tagsOfClauses(rows_, iPc_, iTags_, pcs_) ==
  Only({(
      flatten([i \in 1..Len(pcs) |-> listOfRow(lastRowWith(rows, iPc, pcs[i]), iTags)])
    ) : rows \in {rows_}, iPc \in {iPc_}, iTags \in {iTags_}, pcs \in {pcs_}})

\* a variant of clauseTagsOf that reads the Include_If_List column
clauseIncludesOf(clausesTable_, pcs_) ==
  Only({(
      tagsOfClauses(DataRows(clausesTable), idCol(findCol(clausesTable[1], P_pc_id)),
                    findCol(clausesTable[1], P_include_if_list), pcs)
    ) : clausesTable \in {clausesTable_}, pcs \in {pcs_}})

\* the Tags_Array entries of the clauses pcs, clause by clause, read from clausesTable
clauseTagsOf(clausesTable_, pcs_) ==
  Only({(
      tagsOfClauses(DataRows(clausesTable), idCol(findCol(clausesTable[1], P_pc_id)),
                    findCol(clausesTable[1], P_tags_array), pcs)
    ) : clausesTable \in {clausesTable_}, pcs \in {pcs_}})

\* a variant of matchingRows that keeps the first matching row only
firstMatchingRow(vRows_, iObj_, iVType_, name_) ==
  Only({(
      LET hits == {i \in 1..Len(vRows) :
                     /\ canon(At(vRows[i], iObj)) = canon(JsStr(name))
                     /\ canon(At(vRows[i], iVType)) = W_clause}
      IN PickFrom(vRows, {i \in hits : \A j \in hits : i <= j}, 1)
    ) : vRows \in {vRows_}, iObj \in {iObj_}, iVType \in {iVType_}, name \in {name_}})

\* the Variable rows of type Clause whose Object_Name is name
matchingRows(vRows_, iObj_, iVType_, name_) ==
  Only({(
      PickFrom(vRows,
               {i \in 1..Len(vRows) :
                  /\ canon(At(vRows[i], iObj)) = canon(JsStr(name))
                  /\ canon(At(vRows[i], iVType)) = W_clause},
               1)
    ) : vRows \in {vRows_}, iObj \in {iObj_}, iVType \in {iVType_}, name \in {name_}})

clauseIdsOfRows(ms_, iAssoc_) ==
  Only({(
      flatten([i \in 1..Len(ms) |-> uniqNums(parseList(At(ms[i], iAssoc)))])
    ) : ms \in {ms_}, iAssoc \in {iAssoc_}})

clauseIdsOf(vRows_, iObj_, iVType_, iAssoc_, varList_) ==
  Only({(
      flatten([i \in 1..Len(varList) |->
                 clauseIdsOfRows(matchingRows(vRows, iObj, iVType, varList[i]), iAssoc)])
    ) : vRows \in {vRows_}, iObj \in {iObj_}, iVType \in {iVType_}, iAssoc \in {iAssoc_},
        varList \in {varList_}})

missingVarsOf(vRows_, iObj_, iVType_, varList_) ==
  Only({(
      PickFrom(varList,
               {i \in 1..Len(varList) : Len(matchingRows(vRows, iObj, iVType, varList[i])) = 0},
               1)
    ) : vRows \in {vRows_}, iObj \in {iObj_}, iVType \in {iVType_}, varList \in {varList_}})

\* a variant of resolveClauses that collects the tags of every row of the Clause table
resolveClausesOfTable(tabs_, clausesArray_, missingVars_) ==
  Only({(
      [tagsArray |->
         sortAscending(uniqNumsOfNumbers(
           clauseTagsOf(tabs.clausesTable,
                        [i \in 1..(Len(tabs.clausesTable) - 1) |->
                           JsNumber(At(tabs.clausesTable[i + 1], 0)).n]))),
       clausesArray |-> clausesArray,
       debug |-> (IF Len(missingVars) > 0 THEN <<"Variables not found">> ELSE <<>>)
                 \o <<"Resolved clause IDs", "Collected unique tag IDs">>]
    ) : tabs \in {tabs_}, clausesArray \in {clausesArray_}, missingVars \in {missingVars_}})

\* the result object of the resolver once the clauses are known
resolveClauses(tabs_, clausesArray_, missingVars_) ==
  Only({(
      [tagsArray |-> sortAscending(uniqNumsOfNumbers(clauseTagsOf(tabs.clausesTable, clausesArray))),
       clausesArray |-> clausesArray,
       debug |-> (IF Len(missingVars) > 0 THEN <<"Variables not found">> ELSE <<>>)
                 \o <<"Resolved clause IDs", "Collected unique tag IDs">>]
    ) : tabs \in {tabs_}, clausesArray \in {clausesArray_}, missingVars \in {missingVars_}})

resolveVariables(tabs_, vRows_, iObj_, iVType_, iAssoc_, varList_) ==
  Only({(
      resolveClauses(tabs,
                     sortAscending(uniqNumsOfNumbers(clauseIdsOf(vRows, iObj, iVType, iAssoc, varList))),
                     missingVarsOf(vRows, iObj, iVType, varList))
    ) : tabs \in {tabs_}, vRows \in {vRows_}, iObj \in {iObj_}, iVType \in {iVType_},
        iAssoc \in {iAssoc_}, varList \in {varList_}})

\* a variant of resolveVarList that reports nothing for an empty Variable_Array
resolveVarListSilently(tabs_, varList_) ==
  Only({(
      IF Len(varList) = 0
      THEN [tagsArray |-> <<>>, clausesArray |-> <<>>, debug |-> <<>>]
      ELSE resolveVariables(tabs, DataRows(tabs.variablesTable),
                            findCol(tabs.variablesTable[1], P_object_name),
                            findCol(tabs.variablesTable[1], P_variable_type),
                            findCol(tabs.variablesTable[1], P_associated_clause_array),
                            varList)
    ) : tabs \in {tabs_}, varList \in {varList_}})

resolveVarList(tabs_, varList_) ==
  Only({(
      IF Len(varList) = 0
      THEN [tagsArray |-> <<>>, clausesArray |-> <<>>,
            debug |-> <<"Template Variable_Array is empty.">>]
      ELSE resolveVariables(tabs, DataRows(tabs.variablesTable),
                            findCol(tabs.variablesTable[1], P_object_name),
                            findCol(tabs.variablesTable[1], P_variable_type),
                            findCol(tabs.variablesTable[1], P_associated_clause_array),
                            varList)
    ) : tabs \in {tabs_}, varList \in {varList_}})

resolveTemplateRow(tabs_, tRows_, iTVar_, tIdx_) ==
  Only({(
      IF tIdx = 0
      THEN [tagsArray |-> <<>>, clausesArray |-> <<>>, debug |-> <<"Template not found">>]
      ELSE resolveVarList(tabs, parseList(At(tRows[tIdx], iTVar)))
    ) : tabs \in {tabs_}, tRows \in {tRows_}, iTVar \in {iTVar_}, tIdx \in {tIdx_}})

\* templatesTable.slice(1).find(r => canon(r[iTName]) === canon(templateName))
templateIndex(tRows_, iTName_, templateName_) ==
  Only({(
      firstTrue([i \in 1..Len(tRows) |-> canon(At(tRows[i], iTName)) = canon(JsStr(templateName))])
    ) : tRows \in {tRows_}, iTName \in {iTName_}, templateName \in {templateName_}})

\* getTagsAndClausesByTemplateName({templatesTable, variablesTable, clausesTable}, templateName)
getTagsAndClausesByTemplateName(tabs_, templateName_) ==
  Only({(
      IF Len(tabs.templatesTable) = 0 \/ Len(tabs.variablesTable) = 0 \/ Len(tabs.clausesTable) = 0
      THEN [tagsArray |-> <<>>, clausesArray |-> <<>>,
            debug |-> <<"One or more tables are empty.">>]
      ELSE resolveTemplateRow(tabs, DataRows(tabs.templatesTable),
                              findCol(tabs.templatesTable[1], P_variable_array),
                              templateIndex(DataRows(tabs.templatesTable),
                                            findCol(tabs.templatesTable[1], P_name),
                                            templateName))
    ) : tabs \in {tabs_}, templateName \in {templateName_}})

(***************************************************************************)
(* evaluation: tags -> clauses                                             *)
(***************************************************************************)

\* a variant of yesNoValue in which "no" stays undecided
yesOnlyValue(val_) ==
  Only({(IF val = W_yes THEN 1 ELSE 0) : val \in {val_}})

\* val === "yes" ? 1 : val === "no" ? -1 : 0
yesNoValue(val_) ==
  Only({(IF val = W_yes THEN 1 ELSE IF val = W_no THEN -1 ELSE 0) : val \in {val_}})

\* a variant of nonEmptyValue without the trim
untrimmedValue(v) == IF v # <<>> THEN 1 ELSE 0

\* String(v ?? "").trim() ? 1 : 0
nonEmptyValue(v) == IF trim(v) # <<>> THEN 1 ELSE 0

\* the three branches of evaluateTagsBuildMode for the raw answer v
answerValue(v_, entryCat_, entryType_) ==
  Only({(
      IF entryCat = W_bool THEN yesNoValue(canon(JsStr(v)))
      ELSE IF entryType = W_no \o <<" ">> \o W_display THEN nonEmptyValue(v)
      ELSE nonEmptyValue(v)
    ) : v \in {v_}, entryCat \in {entryCat_}, entryType \in {entryType_}})

valueForRow(v_, row_, iECat_, iType_) ==
  Only({(
      answerValue(v, canon(At(row, iECat)), canon(At(row, iType)))
    ) : v \in {v_}, row \in {row_}, iECat \in {iECat_}, iType \in {iType_}})

\* rowById.has(id) for id = Number(k)
hasRowFor(rows_, iId_, id_) ==
  Only({(
      isFinite(id) /\ lastRowWith(rows, iId, id.n) # <<>>
    ) : rows \in {rows_}, iId \in {iId_}, id \in {id_}})

\* the property names of answeredTags the loop does not skip
knownKeys(answeredTags_, rows_, iId_) ==
  Only({(
      {k \in DOMAIN answeredTags : hasRowFor(rows, iId, StringToNumber(k))}
    ) : answeredTags \in {answeredTags_}, rows \in {rows_}, iId \in {iId_}})

keyOf(known_, id_) ==
  Only({(CHOOSE k \in known : StringToNumber(k).n = id) : known \in {known_}, id \in {id_}})

tagValues(answeredTags_, rows_, iId_, iECat_, iType_, known_) ==
  Only({(
      [id \in {StringToNumber(k).n : k \in known} |->
         valueForRow(answeredTags[keyOf(known, id)], lastRowWith(rows, iId, id)[1], iECat, iType)]
    ) : answeredTags \in {answeredTags_}, rows \in {rows_}, iId \in {iId_}, iECat \in {iECat_},
        iType \in {iType_}, known \in {known_}})

\* a variant of tagValuesIn that gives every Tag row an entry, unanswered ones the value 0
tagValuesOfEveryRow(answeredTags_, rows_, iId_, iECat_, iType_) ==
  Only({(
      [id \in {JsNumber(At(rows[i], iId)).n : i \in 1..Len(rows)} |->
         IF digitsOf(id) \in DOMAIN answeredTags
         THEN valueForRow(answeredTags[digitsOf(id)], lastRowWith(rows, iId, id)[1], iECat, iType)
         ELSE 0]
    ) : answeredTags \in {answeredTags_}, rows \in {rows_}, iId \in {iId_}, iECat \in {iECat_},
        iType \in {iType_}})

tagValuesIn(answeredTags_, rows_, iId_, iECat_, iType_) ==
  Only({(
      tagValues(answeredTags, rows, iId, iECat, iType, knownKeys(answeredTags, rows, iId))
    ) : answeredTags \in {answeredTags_}, rows \in {rows_}, iId \in {iId_}, iECat \in {iECat_},
        iType \in {iType_}})

\* evaluateTagsBuildMode(answeredTags, filteredTagsTable)
\* answeredTags maps property names (strings) to raw answers (strings); the result maps
\* tag numbers to -1, 0 or 1.  The property names are decimal renderings, on which
\* Number is one-to-one.
evaluateTagsBuildMode(answeredTags_, filteredTagsTable_) ==
  Only({(
      IF Len(filteredTagsTable) = 0 THEN EmptyMap
      ELSE tagValuesIn(answeredTags, DataRows(filteredTagsTable),
                       idCol(findCol(filteredTagsTable[1], P_tag_id)),
                       findCol(filteredTagsTable[1], P_entry_category),
                       findCol(filteredTagsTable[1], P_entry_type))
    ) : answeredTags \in {answeredTags_}, filteredTagsTable \in {filteredTagsTable_}})

\* a variant of val that reads a missing tag as 1
valMissingAsYes(assignedTags_, tagId_) ==
  Only({(
      IF tagId \in DOMAIN assignedTags
      THEN (IF assignedTags[tagId] = 1 THEN 1 ELSE IF assignedTags[tagId] = -1 THEN -1 ELSE 0)
      ELSE 1
    ) : assignedTags \in {assignedTags_}, tagId \in {tagId_}})

\* val(tagId) inside evaluateClauses
val(assignedTags_, tagId_) ==
  Only({(
      IF tagId \in DOMAIN assignedTags
      THEN (IF assignedTags[tagId] = 1 THEN 1 ELSE IF assignedTags[tagId] = -1 THEN -1 ELSE 0)
      ELSE 0
    ) : assignedTags \in {assignedTags_}, tagId \in {tagId_}})

\* a variant of clauseVerdict in which an exclude tag with value 1 does not veto
clauseVerdictNoVeto(assignedTags_, inc_, exc_) ==
  Only({(
      IF \E i \in 1..Len(inc) : val(assignedTags, inc[i]) = -1 THEN -1
      ELSE IF (\A i \in 1..Len(inc) : val(assignedTags, inc[i]) = 1)
              /\ (\A i \in 1..Len(exc) : val(assignedTags, exc[i]) = -1) THEN 1
      ELSE 0
    ) : assignedTags \in {assignedTags_}, inc \in {inc_}, exc \in {exc_}})

\* a variant of clauseVerdict that includes a clause only when it has an include tag
clauseVerdictNeedsInclude(assignedTags_, inc_, exc_) ==
  Only({(
      IF \E i \in 1..Len(inc) : val(assignedTags, inc[i]) = -1 THEN -1
      ELSE IF \E i \in 1..Len(exc) : val(assignedTags, exc[i]) = 1 THEN -1
      ELSE IF /\ Len(inc) > 0
              /\ \A i \in 1..Len(inc) : val(assignedTags, inc[i]) = 1
              /\ \A i \in 1..Len(exc) : val(assignedTags, exc[i]) = -1 THEN 1
      ELSE 0
    ) : assignedTags \in {assignedTags_}, inc \in {inc_}, exc \in {exc_}})

\* a variant of clauseVerdict that looks at the include tags before the exclude veto
clauseVerdictIncludeFirst(assignedTags_, inc_, exc_) ==
  Only({(
      IF \E i \in 1..Len(inc) : val(assignedTags, inc[i]) = -1 THEN -1
      ELSE IF Len(inc) > 0 /\ \A i \in 1..Len(inc) : val(assignedTags, inc[i]) = 1 THEN 1
      ELSE IF \E i \in 1..Len(exc) : val(assignedTags, exc[i]) = 1 THEN -1
      ELSE IF \A i \in 1..Len(exc) : val(assignedTags, exc[i]) = -1 THEN 1
      ELSE 0
    ) : assignedTags \in {assignedTags_}, inc \in {inc_}, exc \in {exc_}})

\* a variant of clauseVerdict that includes once some include tag is 1
clauseVerdictAnyInclude(assignedTags_, inc_, exc_) ==
  Only({(
      IF \E i \in 1..Len(inc) : val(assignedTags, inc[i]) = -1 THEN -1
      ELSE IF \E i \in 1..Len(exc) : val(assignedTags, exc[i]) = 1 THEN -1
      ELSE LET incAnyOne == IF Len(inc) = 0 THEN TRUE
                            ELSE \E i \in 1..Len(inc) : val(assignedTags, inc[i]) = 1
               excAllNeg == IF Len(exc) = 0 THEN TRUE
                            ELSE \A i \in 1..Len(exc) : val(assignedTags, exc[i]) = -1
           IN IF incAnyOne /\ excAllNeg THEN 1 ELSE 0
    ) : assignedTags \in {assignedTags_}, inc \in {inc_}, exc \in {exc_}})

\* the verdict evaluateClauses computes for one row
clauseVerdict(assignedTags_, inc_, exc_) ==
  Only({(
      IF \E i \in 1..Len(inc) : val(assignedTags, inc[i]) = -1 THEN -1
      ELSE IF \E i \in 1..Len(exc) : val(assignedTags, exc[i]) = 1 THEN -1
      ELSE LET incAllOne == IF Len(inc) = 0 THEN TRUE
                            ELSE \A i \in 1..Len(inc) : val(assignedTags, inc[i]) = 1
               excAllNeg == IF Len(exc) = 0 THEN TRUE
                            ELSE \A i \in 1..Len(exc) : val(assignedTags, exc[i]) = -1
           IN IF incAllOne /\ excAllNeg THEN 1 ELSE 0
    ) : assignedTags \in {assignedTags_}, inc \in {inc_}, exc \in {exc_}})

verdictOfRow(assignedTags_, r_, iInc_, iExc_) ==
  Only({(
      clauseVerdict(assignedTags, uniqNums(parseList(At(r, iInc))), uniqNums(parseList(At(r, iExc))))
    ) : assignedTags \in {assignedTags_}, r \in {r_}, iInc \in {iInc_}, iExc \in {iExc_}})

\* result[pc] after the loop over the rows: a later row with the same PC_ID overwrites
\* an earlier one
verdictsOf(assignedTags_, rows_, iPc_, iInc_, iExc_) ==
  Only({(
      [pc \in {JsNumber(At(rows[i], iPc)).n :
                 i \in {j \in 1..Len(rows) : isFinite(JsNumber(At(rows[j], iPc)))}} |->
         verdictOfRow(assignedTags, lastRowWith(rows, iPc, pc)[1], iInc, iExc)]
    ) : assignedTags \in {assignedTags_}, rows \in {rows_}, iPc \in {iPc_}, iInc \in {iInc_},
        iExc \in {iExc_}})

\* evaluateClauses(assignedTags, filteredClausesTable): a mapping from PC_ID to verdict
evaluateClauses(assignedTags_, filteredClausesTable_) ==
  Only({(
      IF Len(filteredClausesTable) = 0 THEN EmptyMap
      ELSE verdictsOf(assignedTags, DataRows(filteredClausesTable),
                      idCol(findCol(filteredClausesTable[1], P_pc_id)),
                      findCol(filteredClausesTable[1], P_include_if_list),
                      findCol(filteredClausesTable[1], P_exclude_if_list))
    ) : assignedTags \in {assignedTags_}, filteredClausesTable \in {filteredClausesTable_}})

(***************************************************************************)
(* next questions                                                          *)
(***************************************************************************)

\* a - b on JavaScript numbers
jsMinus(a_, b_) ==
  Only({(
      CASE a.k = "nan" \/ b.k = "nan" -> NaN
        [] a.k = "inf" /\ b.k = "inf" -> NaN
        [] a.k = "inf" -> [k |-> "inf", n |-> 1]
        [] b.k = "inf" -> [k |-> "inf", n |-> -1]
        [] OTHER -> Fin(a.n - b.n)
    ) : a \in {a_}, b \in {b_}})

\* how the sort reads a comparator result: negative (-1), positive (1), zero or NaN (0)
signOf(x_) ==
  Only({(
      CASE x.k = "nan" -> 0
        [] x.k = "inf" -> x.n
        [] OTHER -> IF x.n < 0 THEN -1 ELSE IF x.n > 0 THEN 1 ELSE 0
    ) : x \in {x_}})

\* byPriority || byId: the second difference when the first is 0 or NaN
firstNonZero(byPriority_, byId_) ==
  Only({(
      IF signOf(byPriority) # 0 THEN signOf(byPriority) ELSE signOf(byId)
    ) : byPriority \in {byPriority_}, byId \in {byId_}})

\* (a.Priority ?? Infinity) - (b.Priority ?? Infinity) || a.Tag_ID - b.Tag_ID
questionOrder(a_, b_) ==
  Only({(
      firstNonZero(jsMinus(a.Priority, b.Priority),
                   jsMinus(JsNumber(a.Tag_ID), JsNumber(b.Tag_ID)))
    ) : a \in {a_}, b \in {b_}})

\* nextInfo.sort(questionOrder), a stable sort: every element is inserted behind the
\* elements that do not sort after it
RECURSIVE insertQuestion(_, _)
insertQuestion(sorted_, x_) ==
  Only({(
      IF sorted = <<>> THEN <<x>>
      ELSE IF questionOrder(x, Head(sorted)) < 0 THEN <<x>> \o sorted
      ELSE <<Head(sorted)>> \o insertQuestion(Tail(sorted), x)
    ) : sorted \in {sorted_}, x \in {x_}})

RECURSIVE sortQuestions(_)
sortQuestions(arr_) ==
  Only({(
      IF arr = <<>> THEN <<>>
      ELSE insertQuestion(sortQuestions(SubSeq(arr, 1, Len(arr) - 1)), arr[Len(arr)])
    ) : arr \in {arr_}})

\* the fallback question object for a tag the catalog does not hold
syntheticQuestion(id) ==
  [Tag_ID |-> JsNum(id),
   Tag_Category |-> JsStr(<<>>),
   Priority |-> Infinity,
   Question |-> JsStr(<<"A","n","s","w","e","r"," ","f","o","r"," ","T","a","g"," ">> \o digitsOf(id)),
   Entry_Type |-> JsStr(S_Text),
   Entry_Category |-> JsStr(<<>>),
   Helper_Text |-> JsStr(<<>>)]

\* completion ratio assignedCount / totalTags as a fraction; 0 is 0/1
Ratio(assignedCount, totalTags) ==
  IF totalTags > 0 THEN [num |-> assignedCount, den |-> totalTags]
  ELSE [num |-> 0, den |-> 1]

\* a variant of assignedCountOf that counts every entry
entryCountOf(assignedTags) == Cardinality(DOMAIN assignedTags)

\* Object.values(assignedTags).filter(v => v === 1 || v === -1).length
assignedCountOf(assignedTags_) ==
  Only({(
      Cardinality({k \in DOMAIN assignedTags : assignedTags[k] \in {1, -1}})
    ) : assignedTags \in {assignedTags_}})

\* a variant of unresolvedClausesOf that also keeps the clauses without a verdict
unresolvedOrMissing(clauseEval_, clausesArray_) ==
  Only({(
      PickFrom(clausesArray,
               {i \in 1..Len(clausesArray) :
                  clausesArray[i] \notin DOMAIN clauseEval \/ clauseEval[clausesArray[i]] = 0},
               1)
    ) : clauseEval \in {clauseEval_}, clausesArray \in {clausesArray_}})

\* clausesArray.filter(pc => clauseEval[pc] === 0)
unresolvedClausesOf(clauseEval_, clausesArray_) ==
  Only({(
      PickFrom(clausesArray,
               {i \in 1..Len(clausesArray) :
                  clausesArray[i] \in DOMAIN clauseEval /\ clauseEval[clausesArray[i]] = 0},
               1)
    ) : clauseEval \in {clauseEval_}, clausesArray \in {clausesArray_}})

\* a variant of unsetOrZero that filters nothing
keepEvery(ids, assignedTags) == ids

\* a variant of unsetOrZero that also keeps the tags of value -1
unsetOrNotYes(ids_, assignedTags_) ==
  Only({(
      PickFrom(ids,
               {i \in 1..Len(ids) : ids[i] \notin DOMAIN assignedTags \/ assignedTags[ids[i]] # 1},
               1)
    ) : ids \in {ids_}, assignedTags \in {assignedTags_}})

\* ids.filter(tid => assignedTags[tid] === undefined || assignedTags[tid] === 0)
unsetOrZero(ids_, assignedTags_) ==
  Only({(
      PickFrom(ids,
               {i \in 1..Len(ids) : ids[i] \notin DOMAIN assignedTags \/ assignedTags[ids[i]] = 0},
               1)
    ) : ids \in {ids_}, assignedTags \in {assignedTags_}})

\* a variant of pendingTagIdsOf that collects the tags of every clause of the table
pendingOfEveryClause(unresolvedClauses, filteredClausesTable_, assignedTags_) ==
  Only({(
      unsetOrZero(uniqNumsOfNumbers(clauseTagsOf(filteredClausesTable,
                                                 [i \in 1..(Len(filteredClausesTable) - 1) |-> i])),
                  assignedTags)
    ) : filteredClausesTable \in {filteredClausesTable_}, assignedTags \in {assignedTags_}})

\* the pending tag identifiers of returnNextTagQuestions, in collection order
pendingTagIdsOf(unresolvedClauses, filteredClausesTable, assignedTags) ==
  unsetOrZero(uniqNumsOfNumbers(clauseTagsOf(filteredClausesTable, unresolvedClauses)),
              assignedTags)

\* the catalog object at the highest of the positions hits, else the fallback object
infoAmong(tagsInfo_, hits_, id_) ==
  Only({(
      IF hits = {} THEN syntheticQuestion(id)
      ELSE tagsInfo[CHOOSE i \in hits : \A j \in hits : j <= i]
    ) : tagsInfo \in {tagsInfo_}, hits \in {hits_}, id \in {id_}})

\* infoById.get(Number(id)), or the fallback object
infoFor(tagsInfo_, id_) ==
  Only({(
      infoAmong(tagsInfo, {i \in 1..Len(tagsInfo) : JsNumber(tagsInfo[i].Tag_ID) = Fin(id)}, id)
    ) : tagsInfo \in {tagsInfo_}, id \in {id_}})

nextQuestionsOf(pendingTagIds_, tagsInfo_) ==
  Only({(
      sortQuestions(dedupeByTagId([i \in 1..Len(pendingTagIds) |-> infoFor(tagsInfo, pendingTagIds[i])]))
    ) : pendingTagIds \in {pendingTagIds_}, tagsInfo \in {tagsInfo_}})

\* a variant of askOrDone without the fallback to done
askWithoutFallback(pendingTagIds_, tagsInfo_, ratioCompletedTags_) ==
  Only({(
      [status |-> "ask", nextQuestions |-> nextQuestionsOf(pendingTagIds, tagsInfo),
       ratioCompletedTags |-> ratioCompletedTags]
    ) : pendingTagIds \in {pendingTagIds_}, tagsInfo \in {tagsInfo_},
        ratioCompletedTags \in {ratioCompletedTags_}})

\* the last two returns of returnNextTagQuestions
askOrDone(pendingTagIds_, tagsInfo_, ratioCompletedTags_) ==
  Only({(
      IF Len(pendingTagIds) = 0
      THEN [status |-> "done", nextQuestions |-> <<>>, ratioCompletedTags |-> ratioCompletedTags]
      ELSE [status |-> "ask", nextQuestions |-> nextQuestionsOf(pendingTagIds, tagsInfo),
            ratioCompletedTags |-> ratioCompletedTags]
    ) : pendingTagIds \in {pendingTagIds_}, tagsInfo \in {tagsInfo_},
        ratioCompletedTags \in {ratioCompletedTags_}})

\* returnNextTagQuestions once the unresolved clauses and the ratio are computed
scheduleFrom(unresolvedClauses_, filteredClausesTable_, assignedTags_, tagsInfo_, ratioCompletedTags_) ==
  Only({(
      IF Len(unresolvedClauses) = 0
      THEN [status |-> "done", nextQuestions |-> <<>>, ratioCompletedTags |-> ratioCompletedTags]
      ELSE IF Len(filteredClausesTable) = 0
      THEN [status |-> "ask", nextQuestions |-> <<>>, ratioCompletedTags |-> ratioCompletedTags]
      ELSE askOrDone(pendingTagIdsOf(unresolvedClauses, filteredClausesTable, assignedTags),
                     tagsInfo, ratioCompletedTags)
    ) : unresolvedClauses \in {unresolvedClauses_},
        filteredClausesTable \in {filteredClausesTable_}, assignedTags \in {assignedTags_},
        tagsInfo \in {tagsInfo_}, ratioCompletedTags \in {ratioCompletedTags_}})

\* returnNextTagQuestions(clauseEval, filteredClausesTable, clausesArray, assignedTags,
\*                        tagsArray, tagsInfo)
returnNextTagQuestions(clauseEval_, filteredClausesTable_, clausesArray_, assignedTags_, tagsArray_, tagsInfo_) ==
  Only({(
      scheduleFrom(unresolvedClausesOf(clauseEval, clausesArray), filteredClausesTable,
                   assignedTags, tagsInfo,
                   Ratio(assignedCountOf(assignedTags), Len(tagsArray)))
    ) : clauseEval \in {clauseEval_}, filteredClausesTable \in {filteredClausesTable_},
        clausesArray \in {clausesArray_}, assignedTags \in {assignedTags_},
        tagsArray \in {tagsArray_}, tagsInfo \in {tagsInfo_}})

(***************************************************************************)
(* string literals of the reference data                                   *)
(***************************************************************************)

S_Name == <<"N","a","m","e">>

S_Variable_Array == <<"V","a","r","i","a","b","l","e","_","A","r","r","a","y">>

S_Object_Name == <<"O","b","j","e","c","t","_","N","a","m","e">>

S_Variable_Type == <<"V","a","r","i","a","b","l","e"," ","T","y","p","e">>

S_Associated_Clause_Array == <<"A","s","s","o","c","i","a","t","e","d","_","C","l","a","u","s","e","_","A","r","r","a","y">>

S_PC_ID == <<"P","C","_","I","D">>

S_Include_If_List == <<"I","n","c","l","u","d","e","_","I","f","_","L","i","s","t">>

S_Exclude_If_List == <<"E","x","c","l","u","d","e","_","I","f","_","L","i","s","t">>

S_Tags_Array == <<"T","a","g","s","_","A","r","r","a","y">>

S_Tag_ID == <<"T","a","g","_","I","D">>

S_Priority == <<"P","r","i","o","r","i","t","y">>

S_Entry_Type == <<"E","n","t","r","y","_","T","y","p","e">>

S_Entry_Category == <<"E","n","t","r","y","_","C","a","t","e","g","o","r","y">>

S_Lease == <<"L","e","a","s","e">>

S_NDA == <<"N","D","A">>

S_Memo == <<"M","e","m","o">>

S_Tenant == <<"T","e","n","a","n","t">>

S_Landlord == <<"L","a","n","d","l","o","r","d">>

S_landlord_lc == <<"l","a","n","d","l","o","r","d">>

S_Party == <<"P","a","r","t","y">>

S_Nobody == <<"N","o","b","o","d","y">>

S_Clause == <<"C","l","a","u","s","e">>

S_clause_lc == <<"c","l","a","u","s","e">>

S_Bool == <<"B","o","o","l">>

S_Radio == <<"R","a","d","i","o">>

S_No_Display == <<"N","o"," ","D","i","s","p","l","a","y">>

S_Yes == <<"Y","e","s">>

S_No == <<"N","o">>

S_x == <<"x">>

S_y == <<"y">>

(***************************************************************************)
(* reference data: the workbooks the model is run on                       *)
(***************************************************************************)

\* Tag identifiers the clause lists draw from are 1..MaxTag; the Tag table holds a row
\* for every one of them but the highest, which no row declares.
MaxTag == 3

TagIds == 1..MaxTag

DeclaredTagIds == 1..(MaxTag - 1)

\* the longest Include_If_List / Exclude_If_List / Tags_Array drawn
MaxListLen == 1

RECURSIVE ascending(_)
ascending(S) ==
  IF S = {} THEN <<>>
  ELSE LET m == CHOOSE x \in S : \A y \in S : x <= y
       IN <<m>> \o ascending(S \ {m})

RECURSIVE joinIds(_)
joinIds(ids) ==
  IF Len(ids) = 0 THEN <<>>
  ELSE IF Len(ids) = 1 THEN digitsOf(ids[1])
  ELSE digitsOf(ids[1]) \o <<",", " ">> \o joinIds(Tail(ids))

\* the cell of a list column: blank when empty, a number when it holds one
\* identifier, else the identifiers written out with separators
listCell(S) ==
  IF S = {} THEN Undefined
  ELSE IF Cardinality(S) = 1 THEN JsNum(CHOOSE x \in S : TRUE)
  ELSE JsStr(joinIds(ascending(S)))

TemplatesTable ==
  << <<JsStr(S_Name), JsStr(S_Variable_Array)>>,
     <<JsStr(S_Lease), JsStr(S_Tenant \o <<",", " ">> \o S_Landlord)>>,
     <<JsStr(S_NDA), JsStr(S_Party)>>,
     <<JsStr(S_Memo), JsStr(S_Nobody \o <<";">>)>> >>

\* Tenant -> clauses 1,2; Landlord -> clauses 2,3 (3 has no Clause row);
\* Party -> clause 1; Nobody is not of type Clause
VariablesTable ==
  << <<JsStr(S_Object_Name), JsStr(S_Variable_Type), JsStr(S_Associated_Clause_Array)>>,
     <<JsStr(S_Tenant), JsStr(S_Clause), JsStr(<<"1", ",", "2">>)>>,
     <<JsStr(S_landlord_lc), JsStr(S_clause_lc), JsStr(<<"2", ";", " ", "3">>)>>,
     <<JsStr(S_Party), JsStr(S_Clause), JsNum(1)>>,
     <<JsStr(S_Nobody), JsStr(S_Text), JsNum(1)>> >>

\* a clause as drawn: its three identifier sets
ClauseShape(inc, exc, tags) == [inc |-> inc, exc |-> exc, tags |-> tags]

ClausesTable(c1, c2) ==
  << <<JsStr(S_PC_ID), JsStr(S_Include_If_List), JsStr(S_Exclude_If_List), JsStr(S_Tags_Array)>>,
     <<JsNum(1), listCell(c1.inc), listCell(c1.exc), listCell(c1.tags)>>,
     <<JsNum(2), listCell(c2.inc), listCell(c2.exc), listCell(c2.tags)>> >>

\* odd tags are yes/no tags shown as radio buttons, even tags are free text marked
\* "No Display"; pri[t] is the Priority cell of tag t
TagRow(t, pri) ==
  IF t % 2 = 1
  THEN <<JsNum(t), pri[t], JsStr(S_Radio), JsStr(S_Bool)>>
  ELSE <<JsNum(t), pri[t], JsStr(S_No_Display), Undefined>>

TagsTable(pri) ==
  << <<JsStr(S_Tag_ID), JsStr(S_Priority), JsStr(S_Entry_Type), JsStr(S_Entry_Category)>> >>
  \o [t \in DeclaredTagIds |-> TagRow(t, pri)]

Database(c1, c2, pri) ==
  [templatesTable |-> TemplatesTable,
   variablesTable |-> VariablesTable,
   clausesTable |-> ClausesTable(c1, c2),
   tagsTable |-> TagsTable(pri)]

SmallSets == {S \in SUBSET TagIds : Cardinality(S) <= MaxListLen}

ClauseShapes ==
  {ClauseShape(inc, exc, tags) : inc \in SmallSets, exc \in SmallSets, tags \in SmallSets}

\* priorities that reverse the identifier order
DescendingPriorities == [t \in DeclaredTagIds |-> JsNum(MaxTag - t)]

(***************************************************************************)
(* App component (src/App.jsx)                                             *)
(***************************************************************************)

VARIABLES
  tables,               \* useDatabase().tables, loaded
  selectedTemplate,     \* string
  mode,                 \* "build" | "fill"
  answeredTags,         \* property name -> raw answer
  answeredVariables,
  resolverDebug,
  status,               \* "idle" | "empty-template" | "ask" | "done"
  ratioCompleted,
  nextQuestions,
  filteredTagsTable,
  filteredClausesTable,
  clausesArray,
  tagsArray,
  inferring,
  inferBlob,            \* the text pasted into the inference card
  inferenceErrors,      \* how often "Inference failed:" was logged to the console
  call,                 \* arguments of a direct call of an engine function
  result                \* what that call returned

vars == <<tables, selectedTemplate, mode, answeredTags, answeredVariables, resolverDebug,
          status, ratioCompleted, nextQuestions, filteredTagsTable, filteredClausesTable,
          clausesArray, tagsArray, inferring, inferBlob, inferenceErrors,
          call, result>>

\* useDatabase's own findCol: underscores to spaces, trim, no white-space collapsing
dbFindColFrom(hdr_, name_) ==
  Only({(
      LET hits == {i \in 0..(Len(hdr) - 1) :
                     regexTest(name, trim(underscoresToSpaces(
                       IF hdr[i + 1].t \in {"undef", "null"} THEN <<>> ELSE JsString(hdr[i + 1]))))}
      IN IF hits = {} THEN -1 ELSE CHOOSE i \in hits : \A j \in hits : i <= j
    ) : hdr \in {hdr_}, name \in {name_}})

\* useDatabase: the template names offered by the select box
templateOptions(tabs_) ==
  Only({(
      LET head == IF Len(tabs.templatesTable) = 0 THEN <<>> ELSE tabs.templatesTable[1]
          iName == idCol(dbFindColFrom(head, P_name))
          rows == DataRows(tabs.templatesTable)
          names == [i \in 1..Len(rows) |->
                      LET c == At(rows[i], iName)
                      IN trim(IF c.t \in {"undef", "null"} THEN <<>> ELSE JsString(c))]
      IN dedupeSeq(PickFrom(names, {i \in 1..Len(names) : names[i] # <<>>}, 1))
    ) : tabs \in {tabs_}})

\* the values recompute sets from what returnNextTagQuestions returned
recomputeResult(r_, fTags_, fClauses_, n_) ==
  Only({(
      [resolverDebug |-> r.debug, tagsArray |-> r.tagsArray, clausesArray |-> r.clausesArray,
       filteredTagsTable |-> fTags, filteredClausesTable |-> fClauses,
       nextQuestions |-> n.nextQuestions, ratioCompleted |-> n.ratioCompletedTags,
       status |-> n.status]
    ) : r \in {r_}, fTags \in {fTags_}, fClauses \in {fClauses_}, n \in {n_}})

\* recompute from the assigned tags on: evaluateClauses, then returnNextTagQuestions
recomputeAssigned(r_, fTags_, fClauses_, assigned_) ==
  Only({(
      recomputeResult(r, fTags, fClauses,
                      returnNextTagQuestions(evaluateClauses(assigned, fClauses), fClauses,
                                             r.clausesArray, assigned, r.tagsArray,
                                             dedupeByTagId(shapeTagsInfo(fTags))))
    ) : r \in {r_}, fTags \in {fTags_}, fClauses \in {fClauses_}, assigned \in {assigned_}})

\* a variant of recomputeResolved without the return for an empty clausesArray
recomputeEveryTemplate(tabs_, r_, answers_) ==
  Only({(
      recomputeAssigned(r,
                        filterTableByIds(tabs.tagsTable, r.tagsArray),
                        filterTableByIds(tabs.clausesTable, r.clausesArray),
                        evaluateTagsBuildMode(answers,
                                              filterTableByIds(tabs.tagsTable, r.tagsArray)))
    ) : tabs \in {tabs_}, r \in {r_}, answers \in {answers_}})

\* recompute from the resolver's result r on
recomputeResolved(tabs_, r_, answers_) ==
  Only({(
      IF Len(r.clausesArray) = 0
      THEN [resolverDebug |-> r.debug, tagsArray |-> r.tagsArray, clausesArray |-> r.clausesArray,
            filteredTagsTable |-> <<>>, filteredClausesTable |-> <<>>,
            nextQuestions |-> <<>>, ratioCompleted |-> Ratio(0, 0), status |-> "empty-template"]
      ELSE recomputeAssigned(r,
                             filterTableByIds(tabs.tagsTable, r.tagsArray),
                             filterTableByIds(tabs.clausesTable, r.clausesArray),
                             evaluateTagsBuildMode(answers,
                                                   filterTableByIds(tabs.tagsTable, r.tagsArray)))
    ) : tabs \in {tabs_}, r \in {r_}, answers \in {answers_}})

\* recompute(templateName, answers) past its guard: the values it sets
recompute(tabs_, templateName_, answers_) ==
  Only({(
      recomputeResolved(tabs, getTagsAndClausesByTemplateName(tabs, templateName), answers)
    ) : tabs \in {tabs_}, templateName \in {templateName_}, answers \in {answers_}})

\* the state updates of one recompute call
Recomputed(templateName, answers) ==
  \E r \in {recompute(tables, templateName, answers)} :
     /\ resolverDebug' = r.resolverDebug
     /\ tagsArray' = r.tagsArray
     /\ clausesArray' = r.clausesArray
     /\ filteredTagsTable' = r.filteredTagsTable
     /\ filteredClausesTable' = r.filteredClausesTable
     /\ nextQuestions' = r.nextQuestions
     /\ ratioCompleted' = r.ratioCompleted
     /\ status' = r.status

\* no direct call of an engine function is in progress
NoCall == [fn |-> "none"]

NoResult == [fn |-> "none"]

\* the state of the component after the workbook has loaded, for the workbook db
AppInit(db) ==
  /\ tables = db
  /\ selectedTemplate = <<>>
  /\ mode = "build"
  /\ answeredTags = EmptyMap
  /\ answeredVariables = EmptyMap
  /\ resolverDebug = <<>>
  /\ status = "idle"
  /\ ratioCompleted = Ratio(0, 0)
  /\ nextQuestions = <<>>
  /\ filteredTagsTable = <<>>
  /\ filteredClausesTable = <<>>
  /\ clausesArray = <<>>
  /\ tagsArray = <<>>
  /\ inferring = FALSE
  /\ inferBlob = <<>>
  /\ inferenceErrors = 0

\* a variant of handleTemplateChange that keeps the answers given so far
handleTemplateChangeKeepingAnswers(name) ==
  /\ name # selectedTemplate
  /\ selectedTemplate' = name
  /\ UNCHANGED <<answeredTags, answeredVariables>>
  /\ IF name # <<>>
     THEN Recomputed(name, EmptyMap)
     ELSE /\ status' = "idle"
          /\ nextQuestions' = <<>>
          /\ ratioCompleted' = Ratio(0, 0)
          /\ UNCHANGED <<resolverDebug, tagsArray, clausesArray, filteredTagsTable,
                         filteredClausesTable>>
  /\ UNCHANGED <<tables, mode, inferring, inferBlob, inferenceErrors, call, result>>

\* handleTemplateChange: the select box changes to name ("" is the blank entry)
handleTemplateChange(name) ==
  /\ name # selectedTemplate
  /\ selectedTemplate' = name
  /\ answeredTags' = EmptyMap
  /\ answeredVariables' = EmptyMap
  /\ IF name # <<>>
     THEN Recomputed(name, EmptyMap)
     ELSE /\ status' = "idle"
          /\ nextQuestions' = <<>>
          /\ ratioCompleted' = Ratio(0, 0)
          /\ UNCHANGED <<resolverDebug, tagsArray, clausesArray, filteredTagsTable,
                         filteredClausesTable>>
  /\ UNCHANGED <<tables, mode, inferring, inferBlob, inferenceErrors, call, result>>

\* String(v || "").toLowerCase()
lowerOrEmpty(v_) ==
  Only({(IF Truthy(v) THEN toLowerCase(JsString(v)) ELSE <<>>) : v \in {v_}})

\* String(v || "").trim().toLowerCase()
trimmedLowerOrEmpty(v_) ==
  Only({(IF Truthy(v) THEN toLowerCase(trim(JsString(v))) ELSE <<>>) : v \in {v_}})

\* coerceForUI(tag, entryOptionsMap) with COERCE_NO_DISPLAY = true; the workbooks here
\* hold no EntryCategory sheet, so entryOptionsMap is empty and offers no options
coerceForUI(tag_) ==
  Only({(
      IF lowerOrEmpty(tag.Entry_Type) # W_no \o <<" ">> \o W_display THEN tag
      ELSE IF trimmedLowerOrEmpty(tag.Entry_Category) = W_bool
           THEN [tag EXCEPT !.Entry_Type = JsStr(S_Radio)]
           ELSE [tag EXCEPT !.Entry_Type = JsStr(S_Text)]
    ) : tag \in {tag_}})

coerceAll(qs_) ==
  Only({([i \in 1..Len(qs) |-> coerceForUI(qs[i])]) : qs \in {qs_}})

\* renderQuestions: the questions displayed, one per finite Tag_ID, coerced for display
renderQuestions == coerceAll(dedupeByTagId(nextQuestions))

\* the value a question's input shows: answeredTags[String(q.Tag_ID)] ?? ""
shownValue(q_) ==
  Only({(
      IF JsString(q.Tag_ID) \in DOMAIN answeredTags THEN answeredTags[JsString(q.Tag_ID)] ELSE <<>>
    ) : q \in {q_}})

\* what is typed into a text input: nothing or some text
TextInputs == {<<>>, S_x, S_y}

\* the values the Question component can hand to onChange for the entry type given:
\* a radio group offers Yes and No, a select without options only its blank entry,
\* everything else is a text input
valuesOffered(type_) ==
  Only({(
      IF type \in {W_radio, W_bool} THEN {S_Yes, S_No}
      ELSE IF type \in {W_drop \o <<" ">> \o W_down, W_drop \o W_down, W_select} THEN {<<>>}
      ELSE TextInputs
    ) : type \in {type_}})

\* { ...prev, [String(tagId)]: answer }
withAnswer(prev_, tagId_, answer_) ==
  Only({(
      [k \in DOMAIN prev \cup {JsString(tagId)} |->
         IF k = JsString(tagId) THEN answer ELSE prev[k]]
    ) : prev \in {prev_}, tagId \in {tagId_}, answer \in {answer_}})

\* a variant of displayedQuestions that shows a question for every tag of the restricted
\* Tag table, whatever the status
questionsOfEveryTag ==
  IF mode = "build" /\ selectedTemplate # <<>>
  THEN coerceAll(dedupeByTagId(shapeTagsInfo(filteredTagsTable)))
  ELSE <<>>

\* the Question components rendered: in build mode, with a template selected and
\* status ask, one per entry of renderQuestions
displayedQuestions ==
  IF mode = "build" /\ selectedTemplate # <<>> /\ status = "ask"
  THEN renderQuestions
  ELSE <<>>

\* a variant of handleAnswer that recomputes from the answers of the last render
handleAnswerFromRendered(q, answer) ==
  /\ answer # shownValue(q)
  /\ answeredTags' = withAnswer(answeredTags, q.Tag_ID, answer)
  /\ IF selectedTemplate # <<>>
     THEN Recomputed(selectedTemplate, answeredTags)
     ELSE UNCHANGED <<resolverDebug, tagsArray, clausesArray, filteredTagsTable,
                      filteredClausesTable, nextQuestions, ratioCompleted, status>>
  /\ UNCHANGED <<tables, selectedTemplate, mode, answeredVariables, inferring, inferBlob,
                 inferenceErrors, call, result>>

\* handleAnswer(tagId, answer): the input of a displayed question changes its value
handleAnswer(q, answer) ==
  /\ answer # shownValue(q)
  /\ answeredTags' = withAnswer(answeredTags, q.Tag_ID, answer)
  /\ IF selectedTemplate # <<>>
     THEN Recomputed(selectedTemplate, withAnswer(answeredTags, q.Tag_ID, answer))
     ELSE UNCHANGED <<resolverDebug, tagsArray, clausesArray, filteredTagsTable,
                      filteredClausesTable, nextQuestions, ratioCompleted, status>>
  /\ UNCHANGED <<tables, selectedTemplate, mode, answeredVariables, inferring, inferBlob,
                 inferenceErrors, call, result>>

SelectTemplate == \E name \in Range(templateOptions(tables)) \cup {<<>>} : handleTemplateChange(name)

Answer ==
  \E i \in 1..Len(displayedQuestions) :
    \E a \in valuesOffered(lowerOrEmpty(displayedQuestions[i].Entry_Type)) :
      handleAnswer(displayedQuestions[i], a)

Next == SelectTemplate \/ Answer

\* the second clause of every workbook: needs tag 1, vetoed by tag 2
SecondClause == ClauseShape({1}, {2}, {1, 2})

\* the workbooks: every shape of the first clause
Workbooks == {Database(c1, SecondClause, DescendingPriorities) : c1 \in ClauseShapes}

Init == \E db \in Workbooks : AppInit(db) /\ call = NoCall /\ result = NoResult

Spec == Init /\ [][Next]_vars

(***************************************************************************)
(* a user who picks a template once and then answers every question asked  *)
(* with a definite answer                                                  *)
(***************************************************************************)

\* the first choice in the select box
SelectFirst ==
  /\ selectedTemplate = <<>>
  /\ \E name \in Range(templateOptions(tables)) : handleTemplateChange(name)

\* the definite answers an input offers: Yes or No on a radio group, non-empty text
\* in a text input
definiteValues(type) == valuesOffered(type) \ {<<>>}

\* a displayed question gets a definite answer
AnswerDefinitely ==
  \E i \in 1..Len(displayedQuestions) :
    \E a \in definiteValues(lowerOrEmpty(displayedQuestions[i].Entry_Type)) :
      handleAnswer(displayedQuestions[i], a)

LiveNext == SelectFirst \/ AnswerDefinitely

\* the user does pick a template, and does answer while a question can be answered
LiveSpec == Init /\ [][LiveNext]_vars /\ WF_vars(SelectFirst) /\ WF_vars(AnswerDefinitely)

(***************************************************************************)
(* a template session with the inference card                              *)
(***************************************************************************)

\* the members of the object useAi() returns
useAi == {"inferTags", "inferVariables"}

\* how many inference attempts a session makes
MaxInferences == 1

\* what the text area of the inference card can hold: nothing, white space, some text
InferTexts == {<<>>, <<" ">>, S_x}

\* the inference card is rendered: build mode, a template selected, status not
\* empty-template
inferenceCardShown ==
  /\ mode = "build"
  /\ selectedTemplate # <<>>
  /\ status # "empty-template"

\* setInferBlob(e.target.value): the text area changes to text
setInferBlob(text) ==
  /\ inferenceCardShown
  /\ text # inferBlob
  /\ inferBlob' = text
  /\ UNCHANGED <<tables, selectedTemplate, mode, answeredTags, answeredVariables,
                 resolverDebug, status, ratioCompleted, nextQuestions, filteredTagsTable,
                 filteredClausesTable, clausesArray, tagsArray, inferring, inferenceErrors,
                 call, result>>

\* a variant of doInferFromText that resets the flag only after a successful call
doInferWithoutFinally ==
  /\ inferenceCardShown
  /\ ~inferring
  /\ trim(inferBlob) # <<>>
  /\ Len(filteredTagsTable) > 0
  /\ inferenceErrors < MaxInferences
  /\ "inferTagsFromText" \notin useAi
  /\ inferring' = TRUE
  /\ inferenceErrors' = inferenceErrors + 1
  /\ UNCHANGED <<tables, selectedTemplate, mode, answeredTags, answeredVariables,
                 resolverDebug, status, ratioCompleted, nextQuestions, filteredTagsTable,
                 filteredClausesTable, clausesArray, tagsArray, inferBlob, call, result>>

\* doInferFromText: a click on the enabled "Infer answers" button. The handler sets
\* inferring and calls ai.inferTagsFromText, which is no member of what useAi returns:
\* the call throws before anything is awaited, the catch logs the error and the
\* finally resets inferring, all within the one handler run
doInferFromText ==
  /\ inferenceCardShown
  /\ ~inferring
  /\ trim(inferBlob) # <<>>
  /\ Len(filteredTagsTable) > 0
  /\ inferenceErrors < MaxInferences
  /\ "inferTagsFromText" \notin useAi
  /\ inferring' = FALSE
  /\ inferenceErrors' = inferenceErrors + 1
  /\ UNCHANGED <<tables, selectedTemplate, mode, answeredTags, answeredVariables,
                 resolverDebug, status, ratioCompleted, nextQuestions, filteredTagsTable,
                 filteredClausesTable, clausesArray, tagsArray, inferBlob, call, result>>

TypeText == \E text \in InferTexts : setInferBlob(text)

SessionNext == SelectTemplate \/ Answer \/ TypeText \/ doInferFromText

SessionSpec == Init /\ [][SessionNext]_vars

(***************************************************************************)
(* direct calls of the engine                                              *)
(***************************************************************************)

\* the tag truth mappings: any set of tags, each -1, 0 or 1
TruthMappings == UNION {[S -> {-1, 0, 1}] : S \in SUBSET TagIds}

\* the calls evaluateClauses(assignedTags, table) on a table of two rows; clauses keeps
\* the identifier sets the rows were written from
EvaluateClausesCalls ==
  {[fn |-> "evaluateClauses",
    assignedTags |-> m,
    filteredClausesTable |-> ClausesTable(ClauseShape(inc, exc, {}), SecondClause),
    clauses |-> <<ClauseShape(inc, exc, {}), SecondClause>>] :
     m \in TruthMappings, inc \in SUBSET TagIds, exc \in SUBSET TagIds}

\* answers as text: blank, Yes or No
AnswerTexts == {<<>>, S_Yes, S_No}

\* the answer mappings: any set of tags, each with an answer under its property name
AnswerMappings == UNION {[{digitsOf(t) : t \in S} -> AnswerTexts] : S \in SUBSET TagIds}

\* the highest Priority a Tag row declares
MaxPriority == 2

\* a Priority cell: blank or a number from 0 on
PriorityCells == {Undefined} \cup {JsNum(p) : p \in 0..MaxPriority}

\* a first clause that needs tag 1 and lists every tag
ListsEveryTag == ClauseShape({1}, {}, TagIds)

\* one resolution cycle recompute(templateName, answers) on the workbook tables, for
\* every workbook, the given templates and every answer mapping, and, for every
\* choice of Priority cells, the first cycle of a template all of whose tags are pending;
\* clauses and priorities keep what the workbook was written from
RecomputeCalls(names) ==
  {[fn |-> "recompute",
    tables |-> Database(c1, SecondClause, DescendingPriorities),
    templateName |-> n,
    answers |-> a,
    clauses |-> <<c1, SecondClause>>,
    priorities |-> DescendingPriorities] :
     c1 \in ClauseShapes, n \in names, a \in AnswerMappings}
  \cup
  {[fn |-> "recompute",
    tables |-> Database(ListsEveryTag, SecondClause, pri),
    templateName |-> S_Lease,
    answers |-> EmptyMap,
    clauses |-> <<ListsEveryTag, SecondClause>>,
    priorities |-> pri] :
     pri \in [DeclaredTagIds -> PriorityCells]}

CallInit ==
  /\ AppInit(Database(SecondClause, SecondClause, DescendingPriorities))
  /\ result = NoResult
  /\ \E c \in EvaluateClausesCalls : call = c

CycleInit ==
  /\ AppInit(Database(SecondClause, SecondClause, DescendingPriorities))
  /\ result = NoResult
  /\ \E c \in RecomputeCalls({S_Lease, S_NDA}) : call = c

\* the call in call returns
CallEvaluateClauses ==
  /\ call.fn = "evaluateClauses"
  /\ result.fn = "none"
  /\ result' = [fn |-> "evaluateClauses",
                value |-> evaluateClauses(call.assignedTags, call.filteredClausesTable)]
  /\ UNCHANGED <<tables, selectedTemplate, mode, answeredTags, answeredVariables,
                 resolverDebug, status, ratioCompleted, nextQuestions, filteredTagsTable,
                 filteredClausesTable, clausesArray, tagsArray, inferring, inferBlob,
                 inferenceErrors, call>>

CallRecompute ==
  /\ call.fn = "recompute"
  /\ result.fn = "none"
  /\ result' = [fn |-> "recompute",
                value |-> recompute(call.tables, call.templateName, call.answers)]
  /\ UNCHANGED <<tables, selectedTemplate, mode, answeredTags, answeredVariables,
                 resolverDebug, status, ratioCompleted, nextQuestions, filteredTagsTable,
                 filteredClausesTable, clausesArray, tagsArray, inferring, inferBlob,
                 inferenceErrors, call>>

CallSpec == CallInit /\ [][CallEvaluateClauses]_vars

CycleSpec == CycleInit /\ [][CallRecompute]_vars

(***************************************************************************)
(* properties                                                              *)
(***************************************************************************)

\* the value of tag t under the truth mapping m: a missing tag reads as 0
truthOf(m, t) == IF t \in DOMAIN m THEN m[t] ELSE 0

\* the verdict rule as stated, on the identifier sets of a clause
statedVerdict(m, c) ==
  IF (\E t \in c.inc : truthOf(m, t) = -1) \/ (\E t \in c.exc : truthOf(m, t) = 1) THEN -1
  ELSE IF (\A t \in c.inc : truthOf(m, t) = 1) /\ (\A t \in c.exc : truthOf(m, t) = -1) THEN 1
  ELSE 0

\* C1: for every clause row and every tag truth mapping (a missing tag reads as 0),
\* evaluateClauses gives -1 if an include tag is -1 or an exclude tag is 1, otherwise 1
\* if every include tag is 1 and every exclude tag is -1, otherwise 0.
C1_VerdictRule ==
  result.fn = "evaluateClauses" =>
    /\ DOMAIN result.value = 1..Len(call.clauses)
    /\ \A pc \in 1..Len(call.clauses) :
         result.value[pc] = statedVerdict(call.assignedTags, call.clauses[pc])

\* a row whose include tags are all 1 is vetoed by an exclude tag of value 1
C1_Witness ==
  /\ result.fn = "evaluateClauses"
  /\ call.clauses[1].inc # {}
  /\ \A t \in call.clauses[1].inc : truthOf(call.assignedTags, t) = 1
  /\ \E t \in call.clauses[1].exc : truthOf(call.assignedTags, t) = 1
  /\ \E t \in call.clauses[1].exc : t \notin DOMAIN call.assignedTags
  /\ result.value[1] = -1

\* C2: if every question asked is answered definitely (yes or no for a bool tag,
\* non-empty text for any other tag), a status of ask is eventually followed by done.
C2_EventuallyDone == (status = "ask") ~> (status = "done")

(***************************************************************************)
(* one resolution cycle, as the properties below read it                   *)
(***************************************************************************)

\* the identifiers of the data rows of a table whose first column holds them
rowIds(table) == {JsNumber(table[i][1]).n : i \in 2..Len(table)}

\* the clauses of the clause universe whose verdict is 0
unresolvedIn(verdicts, universe) ==
  {pc \in Range(universe) : pc \in DOMAIN verdicts /\ verdicts[pc] = 0}

\* the identifier sets clause pc was written with; a clause without a row has none
shapeOf(clauses, pc) ==
  IF pc \in 1..Len(clauses) THEN clauses[pc] ELSE ClauseShape({}, {}, {})

\* the tags of the unresolved clauses' Tags_Array whose value is missing or 0
pendingIn(clauses, unresolved, m) ==
  {t \in UNION {shapeOf(clauses, pc).tags : pc \in unresolved} : truthOf(m, t) = 0}

viewFrom(r, clauses, m, verdicts, unresolved) ==
  [status |-> r.status,
   questions |-> r.nextQuestions,
   batch |-> {JsNumber(r.nextQuestions[i].Tag_ID).n : i \in 1..Len(r.nextQuestions)},
   ratio |-> r.ratioCompleted,
   universe |-> Range(r.tagsArray),
   restricted |-> rowIds(r.filteredTagsTable),
   clauses |-> clauses,
   truth |-> m,
   verdicts |-> verdicts,
   unresolved |-> unresolved,
   pending |-> pendingIn(clauses, unresolved, m)]

viewWith(r, clauses, m, verdicts) ==
  viewFrom(r, clauses, m, verdicts, unresolvedIn(verdicts, r.clausesArray))

\* what a cycle with the outcome r worked on: the truth mapping m of the answers, the
\* verdicts under m, the unresolved clauses and the pending tags
viewOf(r, clauses, m) == viewWith(r, clauses, m, evaluateClauses(m, r.filteredClausesTable))

\* the cycle a direct call of recompute has run
CycleView ==
  viewOf(result.value, call.clauses,
         evaluateTagsBuildMode(call.answers, result.value.filteredTagsTable))

Scheduled == result.fn = "recompute" /\ result.value.status \in {"ask", "done"}

doneExactlyWhen(v) == (v.status = "done") <=> (v.unresolved = {} \/ v.pending = {})

\* C3: the scheduler returns done if and only if no clause of the clause universe has
\* verdict 0 or no tag of the unresolved clauses' Tags_Array has a missing or 0 value.
C3_DoneIff == Scheduled => doneExactlyWhen(CycleView)

doneByFallback(v) == v.status = "done" /\ v.unresolved # {} /\ v.pending = {}

\* a cycle that ends done although a clause is unresolved
C3_Witness == Scheduled /\ doneByFallback(CycleView)

askHasQuestions(v) ==
  v.status = "ask" =>
    /\ v.pending # {}
    /\ Len(v.questions) > 0
    /\ \A i, j \in 1..Len(v.questions) :
         i # j => JsNumber(v.questions[i].Tag_ID) # JsNumber(v.questions[j].Tag_ID)

\* C4: whenever the scheduler returns ask, the pending tag set is non-empty and the
\* question list is non-empty and holds no two questions with the same Tag_ID.
C4_AskHasQuestions == Scheduled => askHasQuestions(CycleView)

askedSeveral(v) == v.status = "ask" /\ Len(v.questions) >= 2 /\ v.unresolved # {}

\* a cycle that asks several questions
C4_Witness == Scheduled /\ askedSeveral(CycleView)

\* the Priority a Tag row declares for tag t, as a sort key: a number sorts by its
\* value, before a tag without a row or with a blank Priority cell
declaredRank(pri, t) ==
  IF t \in DOMAIN pri /\ pri[t].t = "num" THEN <<0, pri[t].n>> ELSE <<1, 0>>

\* tag a sorts strictly before tag b by declared priority, then by identifier
sortsBefore(pri, a, b) ==
  \/ declaredRank(pri, a)[1] < declaredRank(pri, b)[1]
  \/ /\ declaredRank(pri, a)[1] = declaredRank(pri, b)[1]
     /\ declaredRank(pri, a)[2] < declaredRank(pri, b)[2]
  \/ /\ declaredRank(pri, a) = declaredRank(pri, b)
     /\ a < b

inDeclaredOrder(pri, ids) ==
  \A i, j \in 1..Len(ids) : i < j => ~sortsBefore(pri, ids[j], ids[i])

\* the Tag_IDs of a question list, in its order
idsInOrder(qs) == [i \in 1..Len(qs) |-> JsNumber(qs[i].Tag_ID).n]

\* C5: the question batch is ordered ascending by the Priority the Tag table declares
\* (every declared number, 0 included, before a missing priority), equal priorities by
\* Tag_ID ascending.
C5_ByDeclaredPriority ==
  Scheduled => inDeclaredOrder(call.priorities, idsInOrder(result.value.nextQuestions))

neededByInclusion(v) ==
  \A t \in v.batch :
    \E pc \in v.unresolved : t \in shapeOf(v.clauses, pc).inc \cup shapeOf(v.clauses, pc).exc

\* C6 as stated: every tag of a question batch is in the Include_If_List or the
\* Exclude_If_List of some clause whose verdict is 0.
C6_InIncludeOrExclude == Scheduled => neededByInclusion(CycleView)

listedByUnresolved(v) ==
  \A t \in v.batch : \E pc \in v.unresolved : t \in shapeOf(v.clauses, pc).tags

\* C6 amended: every tag of a question batch is in the Tags_Array of some clause whose
\* verdict is 0.
C6_InTagsArrayOfUnresolved == Scheduled => listedByUnresolved(CycleView)

asksUnneeded(v) ==
  \E t \in v.batch :
    /\ \E pc \in v.unresolved : t \in shapeOf(v.clauses, pc).tags
    /\ \A pc \in DOMAIN v.verdicts :
         t \notin shapeOf(v.clauses, pc).inc \cup shapeOf(v.clauses, pc).exc

\* a batch holds a tag that no clause includes or excludes
C6_Witness == Scheduled /\ asksUnneeded(CycleView)

pendingOnly(v) ==
  \A t \in v.batch :
    /\ \E pc \in v.unresolved : t \in shapeOf(v.clauses, pc).tags
    /\ t \notin DOMAIN v.truth \/ v.truth[t] = 0
    /\ truthOf(v.truth, t) \notin {1, -1}

\* C7: every tag of a question batch is in the Tags_Array of some clause whose verdict
\* is 0 and has a missing or 0 truth value; a tag whose value is 1 or -1 is never asked.
C7_PendingOnly == Scheduled => pendingOnly(CycleView)

asksAgain(v) ==
  /\ \E t \in v.batch : t \in DOMAIN v.truth
  /\ \E t \in v.universe \ v.batch : truthOf(v.truth, t) \in {1, -1}

\* a batch asks again for a tag answered without a definite value, and leaves out a
\* tag of the universe whose value is definite
C7_Witness == Scheduled /\ asksAgain(CycleView)

\* the clause shapes the workbook tabs was written from
writtenClauses(tabs) ==
  <<CHOOSE c1 \in ClauseShapes : ClausesTable(c1, SecondClause) = tabs.clausesTable,
    SecondClause>>

universeIsDeclared(universe, ratio, declared) ==
  /\ universe \subseteq declared
  /\ ratio.den <= Cardinality(declared)

\* C8: a tag a resolved clause lists in its Tags_Array but that has no row in the Tag
\* table is not a member of tagsArray and does not count in the denominator of the
\* completion ratio.
C8_UniverseIsDeclared ==
  status \in {"ask", "done"} =>
    universeIsDeclared(Range(tagsArray), ratioCompleted, rowIds(tables.tagsTable))

\* no clause that includes a tag outside restricted has verdict 1
neverIncluded(clauses, verdicts, restricted) ==
  \A pc \in DOMAIN verdicts :
    shapeOf(clauses, pc).inc \ restricted # {} => verdicts[pc] # 1

\* C9: a clause whose Include_If_List holds a tag without a row in the restricted Tag
\* table never has verdict 1, whatever has been answered, answers under that tag's
\* identifier included.
C9_NeverIncluded ==
  status \in {"ask", "done"} =>
    neverIncluded(writtenClauses(tables),
                  evaluateClauses(evaluateTagsBuildMode(answeredTags, filteredTagsTable),
                                  filteredClausesTable),
                  rowIds(filteredTagsTable))

\* the first clause includes a tag without a row in the restricted Tag table, and an
\* answer has been given under that tag's identifier
C9_Witness ==
  /\ status \in {"ask", "done"}
  /\ 1 \in Range(clausesArray)
  /\ \E t \in writtenClauses(tables)[1].inc :
       /\ t \notin rowIds(filteredTagsTable)
       /\ digitsOf(t) \in DOMAIN answeredTags
       /\ answeredTags[digitsOf(t)] # <<>>

ratioOfUniverse(v) ==
  /\ v.ratio.num * Cardinality(v.universe)
       = Cardinality({t \in v.universe : truthOf(v.truth, t) \in {1, -1}}) * v.ratio.den
  /\ v.ratio.den > 0
  /\ v.universe = {} => v.ratio.num = 0

\* C10: the completion ratio is the number of tags of the tag universe whose truth
\* value is 1 or -1 divided by the size of the universe, 0 when the universe is empty;
\* values of tags outside the universe do not count.
C10_RatioOfUniverse == result.fn = "recompute" => ratioOfUniverse(CycleView)

\* the tags outside the universe that hold a non-blank answer and have a Tag row
answeredOutside(v, answers, declared) ==
  {t \in declared \ v.universe : digitsOf(t) \in DOMAIN answers /\ answers[digitsOf(t)] # <<>>}

answeredInAndOut(v, answers, declared) ==
  /\ answeredOutside(v, answers, declared) # {}
  /\ \E t \in v.universe : truthOf(v.truth, t) \in {1, -1}
  /\ v.ratio.num = 1

\* a cycle with a definite tag in the universe and an answered tag outside it
C10_Witness ==
  /\ result.fn = "recompute"
  /\ answeredInAndOut(CycleView, call.answers, rowIds(call.tables.tagsTable))

(***************************************************************************)
(* a workbook whose Tag table leads with the Priority column               *)
(***************************************************************************)

\* the row of tag t: Priority 1 first, then the identifier; types as in TagRow
PriorityFirstRow(t) ==
  IF t % 2 = 1
  THEN <<JsNum(1), JsNum(t), JsStr(S_Radio), JsStr(S_Bool)>>
  ELSE <<JsNum(1), JsNum(t), JsStr(S_No_Display), Undefined>>

PriorityFirstTagsTable ==
  << <<JsStr(S_Priority), JsStr(S_Tag_ID), JsStr(S_Entry_Type), JsStr(S_Entry_Category)>> >>
  \o [t \in DeclaredTagIds |-> PriorityFirstRow(t)]

\* a first clause without conditions that lists the tags
ListsOnly(tags) == ClauseShape({}, {}, tags)

\* one resolution cycle on such a workbook, for every Tags_Array of the first clause,
\* the templates with clauses and every answer mapping
PriorityFirstCalls ==
  {[fn |-> "recompute",
    tables |-> [Database(ListsOnly(tags), SecondClause, DescendingPriorities)
                  EXCEPT !.tagsTable = PriorityFirstTagsTable],
    templateName |-> n,
    answers |-> a,
    clauses |-> <<ListsOnly(tags), SecondClause>>,
    priorities |-> [t \in DeclaredTagIds |-> JsNum(1)]] :
     tags \in SmallSets, n \in {S_Lease, S_NDA}, a \in AnswerMappings}

PriorityFirstInit ==
  /\ AppInit(Database(SecondClause, SecondClause, DescendingPriorities))
  /\ result = NoResult
  /\ \E c \in PriorityFirstCalls : call = c

PriorityFirstSpec == PriorityFirstInit /\ [][CallRecompute]_vars

\* C11: the completion ratio of every resolution cycle is between 0 and 1 inclusive.
C11_RatioInUnitInterval ==
  result.fn = "recompute" =>
    /\ 0 <= result.value.ratioCompleted.num
    /\ result.value.ratioCompleted.num <= result.value.ratioCompleted.den

\* C12: a clause whose Include_If_List and Exclude_If_List are both empty has verdict 1
\* under every tag truth mapping.
C12_EmptyListsInclude ==
  result.fn = "evaluateClauses" =>
    \A pc \in 1..Len(call.clauses) :
      (call.clauses[pc].inc = {} /\ call.clauses[pc].exc = {}) => result.value[pc] = 1

\* a clause without conditions is evaluated under a mapping that holds a yes and a no
C12_Witness ==
  /\ result.fn = "evaluateClauses"
  /\ call.clauses[1].inc = {}
  /\ call.clauses[1].exc = {}
  /\ \E t \in DOMAIN call.assignedTags : call.assignedTags[t] = 1
  /\ \E t \in DOMAIN call.assignedTags : call.assignedTags[t] = -1
  /\ result.value[1] = 1

\* the mappings got from m by giving value 1 to any set of tags whose value is 0 or missing
positiveAnswers(m) ==
  {[t \in DOMAIN m \cup S |-> IF t \in S THEN 1 ELSE m[t]] :
     S \in SUBSET {t \in TagIds : truthOf(m, t) = 0}}

\* every verdict -1 of verdicts is -1 again in later
staysDenied(verdicts, later) ==
  \A pc \in DOMAIN verdicts : verdicts[pc] = -1 => (pc \in DOMAIN later /\ later[pc] = -1)

\* C13: a clause with verdict -1 under a mapping has verdict -1 under every mapping got
\* from it by changing tags of value 0 or missing to value 1.
C13_DenialIsSticky ==
  result.fn = "evaluateClauses" =>
    \A m \in positiveAnswers(call.assignedTags) :
      staysDenied(result.value, evaluateClauses(m, call.filteredClausesTable))

\* a clause vetoed by an exclude tag while none of its include tags is answered
C13_Witness ==
  /\ result.fn = "evaluateClauses"
  /\ call.clauses[1].inc # {}
  /\ \A t \in call.clauses[1].inc : truthOf(call.assignedTags, t) = 0
  /\ \E t \in call.clauses[1].inc : t \notin DOMAIN call.assignedTags
  /\ \E t \in call.clauses[1].exc : truthOf(call.assignedTags, t) = 1
  /\ result.value[1] = -1

(***************************************************************************)
(* direct calls of evaluateTagsBuildMode                                   *)
(***************************************************************************)

\* Entry_Category cells, each with whether it canonically equals bool
CategoryCases ==
  {[cell |-> JsStr(S_Bool), bool |-> TRUE],
   [cell |-> JsStr(<<" ", "B", "O", "O", "L", " ">>), bool |-> TRUE],
   [cell |-> JsStr(<<"b", "o", "o", "l">>), bool |-> TRUE],
   [cell |-> JsStr(<<"B", "o", "o", "l", "e", "a", "n">>), bool |-> FALSE],
   [cell |-> Undefined, bool |-> FALSE]}

\* Entry_Type cells
TypeCells == {JsStr(S_Radio), JsStr(S_No_Display), JsStr(S_Text)}

\* raw answers, each with what it canonically equals (yes, no or neither) and whether
\* it is empty once trimmed
AnswerCases ==
  {[text |-> <<>>, means |-> "other", blank |-> TRUE],
   [text |-> <<" ">>, means |-> "other", blank |-> TRUE],
   [text |-> S_Yes, means |-> "yes", blank |-> FALSE],
   [text |-> <<" ", "y", "e", "s", " ">>, means |-> "yes", blank |-> FALSE],
   [text |-> <<"Y", "E", "S">>, means |-> "yes", blank |-> FALSE],
   [text |-> S_No, means |-> "no", blank |-> FALSE],
   [text |-> <<"N", "O", " ">>, means |-> "no", blank |-> FALSE],
   [text |-> <<"y">>, means |-> "other", blank |-> FALSE],
   [text |-> <<"n", "o", "t">>, means |-> "other", blank |-> FALSE],
   [text |-> <<" ", "x", " ">>, means |-> "other", blank |-> FALSE]}

\* a restricted Tag table with a row for tag 1, of the given category and type, and a row
\* for tag 2, free text without category
TwoTagsTable(category, type) ==
  << <<JsStr(S_Tag_ID), JsStr(S_Priority), JsStr(S_Entry_Type), JsStr(S_Entry_Category)>>,
     <<JsNum(1), JsNum(1), type, category>>,
     <<JsNum(2), JsNum(2), JsStr(S_Text), Undefined>> >>

\* the answers: any of the cases or none for tag 1, a few texts or none for tag 2, and an
\* answer or none under the other identifiers, which are no rows of the table
TagAnswers ==
  {[k \in {digitsOf(t) : t \in S} |->
      IF k = digitsOf(1) THEN a1 ELSE IF k = digitsOf(2) THEN a2 ELSE S_Yes] :
     S \in SUBSET TagIds,
     a1 \in {c.text : c \in AnswerCases},
     a2 \in {<<>>, S_No, <<" ", "x", " ">>}}

\* the calls evaluateTagsBuildMode(answers, table); rows keeps, for the rows of the
\* table, whether the category is bool
EvaluateTagsCalls ==
  {[fn |-> "evaluateTagsBuildMode",
    answers |-> a,
    filteredTagsTable |-> TwoTagsTable(c.cell, type),
    rows |-> [t \in {1, 2} |-> IF t = 1 THEN c.bool ELSE FALSE]] :
     a \in TagAnswers, c \in CategoryCases, type \in TypeCells}
  \cup
  {[fn |-> "evaluateTagsBuildMode", answers |-> a, filteredTagsTable |-> <<>>, rows |-> EmptyMap] :
     a \in TagAnswers}

TagsInit ==
  /\ AppInit(Database(SecondClause, SecondClause, DescendingPriorities))
  /\ result = NoResult
  /\ \E c \in EvaluateTagsCalls : call = c

CallEvaluateTags ==
  /\ call.fn = "evaluateTagsBuildMode"
  /\ result.fn = "none"
  /\ result' = [fn |-> "evaluateTagsBuildMode",
                value |-> evaluateTagsBuildMode(call.answers, call.filteredTagsTable)]
  /\ UNCHANGED <<tables, selectedTemplate, mode, answeredTags, answeredVariables,
                 resolverDebug, status, ratioCompleted, nextQuestions, filteredTagsTable,
                 filteredClausesTable, clausesArray, tagsArray, inferring, inferBlob,
                 inferenceErrors, call>>

TagsSpec == TagsInit /\ [][CallEvaluateTags]_vars

\* the case of a raw answer
caseOf(text) == CHOOSE c \in AnswerCases : c.text = text

\* the raw answer the call holds for tag t
answerTo(t) == call.answers[digitsOf(t)]

\* the tags of the call that have a row and an answer, by kind of row
answeredRows(bool) ==
  {t \in DOMAIN call.rows : call.rows[t] = bool /\ digitsOf(t) \in DOMAIN call.answers}

\* C14: for a tag whose Entry_Category canonically equals bool, an answer canonically
\* equal to yes gives 1, one canonically equal to no gives -1, any other answer gives 0.
C14_BoolAnswers ==
  result.fn = "evaluateTagsBuildMode" =>
    \A t \in answeredRows(TRUE) :
      /\ t \in DOMAIN result.value
      /\ result.value[t] = (CASE caseOf(answerTo(t)).means = "yes" -> 1
                              [] caseOf(answerTo(t)).means = "no" -> -1
                              [] OTHER -> 0)

\* a bool tag marked No Display is answered no in capitals with a trailing blank
C14_Witness ==
  /\ result.fn = "evaluateTagsBuildMode"
  /\ 1 \in answeredRows(TRUE)
  /\ call.filteredTagsTable[2][3] = JsStr(S_No_Display)
  /\ call.filteredTagsTable[2][4] # JsStr(S_Bool)
  /\ answerTo(1) = <<"N", "O", " ">>
  /\ result.value[1] = -1

\* C15: for a tag whose Entry_Category is not bool, an answer that is non-empty once
\* trimmed gives 1 and an empty one gives 0; the value is never -1.
C15_OtherAnswers ==
  result.fn = "evaluateTagsBuildMode" =>
    \A t \in answeredRows(FALSE) :
      /\ t \in DOMAIN result.value
      /\ result.value[t] = (IF caseOf(answerTo(t)).blank THEN 0 ELSE 1)
      /\ result.value[t] # -1

\* a non-bool tag marked No Display is answered No, another only blanks
C15_Witness ==
  /\ result.fn = "evaluateTagsBuildMode"
  /\ 1 \in answeredRows(FALSE)
  /\ call.filteredTagsTable[2][3] = JsStr(S_No_Display)
  /\ answerTo(1) = S_No
  /\ result.value[1] = 1
  /\ 2 \in answeredRows(FALSE)
  /\ answerTo(2) = <<>>
  /\ result.value[2] = 0

\* C16: the mapping evaluateTagsBuildMode returns has an entry for a tag identifier
\* exactly when the identifier is a row of the restricted Tag table and a key of the
\* answer mapping.
C16_RowsWithAnswers ==
  result.fn = "evaluateTagsBuildMode" =>
    DOMAIN result.value = answeredRows(TRUE) \cup answeredRows(FALSE)

\* an answer under an identifier without a row is dropped and a row without an answer
\* gets no entry, while another row gets one
C16_Witness ==
  /\ result.fn = "evaluateTagsBuildMode"
  /\ digitsOf(MaxTag) \in DOMAIN call.answers
  /\ 2 \in DOMAIN call.rows
  /\ digitsOf(2) \notin DOMAIN call.answers
  /\ DOMAIN result.value = {1}

(***************************************************************************)
(* direct calls of getTagsAndClausesByTemplateName                         *)
(***************************************************************************)

\* clause identifiers the Variable rows draw from are 1..MaxClause; the Clause table
\* holds rows for clauses 1 and 2
MaxClause == 3

ClauseIds == 1..MaxClause

S_Mixed == <<"M","i","x","e","d">>

S_Blank == <<"B","l","a","n","k">>

S_Unknown == <<"U","n","k","n","o","w","n">>

S_lease_spaced == <<" ","l","e","a","s","e"," ">>

\* Mixed lists a name that is no Clause variable before one that is, in other letter
\* case and with another separator; Blank lists nothing
ResolverTemplates ==
  TemplatesTable \o
  << <<JsStr(S_Mixed), JsStr(S_Nobody \o <<" ", "|", " ">> \o toLowerCase(S_Party))>>,
     <<JsStr(S_Blank), Undefined>> >>

\* the cell of a list column with the identifiers written from the highest down
descendingCell(S) ==
  IF S = {} THEN Undefined
  ELSE JsStr(joinIds([i \in 1..Cardinality(S) |-> ascending(S)[Cardinality(S) + 1 - i]]))

\* the Variable table with the given Associated_Clause_Array of Tenant, of Landlord and
\* of the two rows of Party
ResolverVariables(assoc) ==
  << <<JsStr(S_Object_Name), JsStr(S_Variable_Type), JsStr(S_Associated_Clause_Array)>>,
     <<JsStr(S_Tenant), JsStr(S_Clause), descendingCell(assoc.tenant)>>,
     <<JsStr(S_landlord_lc), JsStr(S_clause_lc), listCell(assoc.landlord)>>,
     <<JsStr(S_Party), JsStr(S_Clause), listCell(assoc.party)>>,
     <<JsStr(S_Nobody), JsStr(S_Text), JsNum(1)>>,
     <<JsStr(toLowerCase(S_Party) \o <<" ">>), JsStr(<<" ">> \o S_Clause), descendingCell(assoc.party2)>> >>

\* template names as passed, each with the variables its row lists
TemplateCases ==
  {[name |-> S_Lease, found |-> TRUE, listed |-> {"tenant", "landlord"}],
   [name |-> S_lease_spaced, found |-> TRUE, listed |-> {"tenant", "landlord"}],
   [name |-> S_NDA, found |-> TRUE, listed |-> {"party"}],
   [name |-> S_Memo, found |-> TRUE, listed |-> {"nobody"}],
   [name |-> S_Mixed, found |-> TRUE, listed |-> {"nobody", "party"}],
   [name |-> S_Blank, found |-> TRUE, listed |-> {}],
   [name |-> S_Unknown, found |-> FALSE, listed |-> {}]}

Associations(tenant, landlord, party, party2) ==
  [tenant |-> tenant, landlord |-> landlord, party |-> party, party2 |-> party2]

\* the Associated_Clause_Arrays of VariablesTable
UsualAssociations == Associations({1, 2}, {2, 3}, {1}, {})

\* the first clause lists the highest tag, the second the two lowest
UsualClauses == <<ClauseShape({}, {}, {MaxTag}), SecondClause>>

ResolverCall(t, assoc, clauses, absent) ==
  [fn |-> "getTagsAndClausesByTemplateName",
   tables |-> [templatesTable |-> IF "templates" \in absent THEN <<>> ELSE ResolverTemplates,
               variablesTable |-> IF "variables" \in absent THEN <<>> ELSE ResolverVariables(assoc),
               clausesTable |-> IF "clauses" \in absent THEN <<>>
                                ELSE ClausesTable(clauses[1], clauses[2]),
               tagsTable |-> TagsTable(DescendingPriorities)],
   templateName |-> t.name,
   template |-> t,
   assoc |-> assoc,
   clauses |-> clauses,
   absent |-> absent]

\* the calls: every template name on every choice of Associated_Clause_Arrays, on every
\* choice of the two Tags_Arrays, and with any of the three tables empty
ResolverCalls ==
  {ResolverCall(t, Associations(a, b, c, d), UsualClauses, {}) :
     t \in TemplateCases, a \in SUBSET ClauseIds, b \in SUBSET ClauseIds,
     c \in {{}, {1}}, d \in {{}, {2, MaxClause}}}
  \cup
  {ResolverCall(t, UsualAssociations, <<ClauseShape({}, {}, t1), ClauseShape({}, {}, t2)>>, {}) :
     t \in TemplateCases, t1 \in SUBSET TagIds, t2 \in SUBSET TagIds}
  \cup
  {ResolverCall(t, UsualAssociations, UsualClauses, absent) :
     t \in TemplateCases, absent \in SUBSET {"templates", "variables", "clauses"}}

ResolverInit ==
  /\ AppInit(Database(SecondClause, SecondClause, DescendingPriorities))
  /\ result = NoResult
  /\ \E c \in ResolverCalls : call = c

CallResolver ==
  /\ call.fn = "getTagsAndClausesByTemplateName"
  /\ result.fn = "none"
  /\ result' = [fn |-> "getTagsAndClausesByTemplateName",
                value |-> getTagsAndClausesByTemplateName(call.tables, call.templateName)]
  /\ UNCHANGED <<tables, selectedTemplate, mode, answeredTags, answeredVariables,
                 resolverDebug, status, ratioCompleted, nextQuestions, filteredTagsTable,
                 filteredClausesTable, clausesArray, tagsArray, inferring, inferBlob,
                 inferenceErrors, call>>

ResolverSpec == ResolverInit /\ [][CallResolver]_vars

Resolved == result.fn = "getTagsAndClausesByTemplateName"

\* the clause identifiers of the Variable rows of type Clause named v
clausesOfVariable(assoc, v) ==
  CASE v = "tenant" -> assoc.tenant
    [] v = "landlord" -> assoc.landlord
    [] v = "party" -> assoc.party \cup assoc.party2
    [] OTHER -> {}

\* the union over the variables the template lists
statedClauses(c) == UNION {clausesOfVariable(c.assoc, v) : v \in c.template.listed}

\* C17: the resolved clause set is the union of the Associated_Clause_Array identifiers
\* of every Variable row of type clause whose Object_Name matches a name of the
\* template's Variable_Array; a name without such a row contributes nothing and does
\* not stop the others.
C17_ClausesOfVariables ==
  (Resolved /\ call.absent = {}) => Range(result.value.clausesArray) = statedClauses(call)

\* a template lists a name without a Clause row before a name with two rows, and both
\* rows contribute
C17_Witness ==
  /\ Resolved
  /\ call.absent = {}
  /\ call.template.listed = {"nobody", "party"}
  /\ call.assoc.party = {1}
  /\ call.assoc.party2 = {2, MaxClause}
  /\ Range(result.value.clausesArray) = {1, 2, MaxClause}

\* the union of the Tags_Arrays of the given clauses that have a row
statedTags(clauses, pcs) == UNION {clauses[pc].tags : pc \in pcs \cap (1..Len(clauses))}

\* C18: the resolved tag set is the union of the Tags_Array identifiers of every
\* resolved clause that has a row in the Clause table; resolved clauses without a row
\* are skipped.
C18_TagsOfClauses ==
  (Resolved /\ call.absent = {}) =>
    Range(result.value.tagsArray) = statedTags(call.clauses, Range(result.value.clausesArray))

\* a clause without a row is resolved next to one with a row and tags, while the other
\* row of the table, with other tags, is not resolved
C18_Witness ==
  /\ Resolved
  /\ call.absent = {}
  /\ \E pc \in Range(result.value.clausesArray) : pc > Len(call.clauses)
  /\ \E pc \in 1..Len(call.clauses) :
       /\ pc \notin Range(result.value.clausesArray)
       /\ call.clauses[pc].tags \ Range(result.value.tagsArray) # {}
  /\ result.value.tagsArray # <<>>

strictlyAscending(ids) == \A i \in 1..(Len(ids) - 1) : ids[i] < ids[i + 1]

\* C19: the clause identifier list and the tag identifier list the resolver returns
\* are in strictly ascending order, hence without duplicates.
C19_SortedAndDistinct ==
  Resolved =>
    /\ strictlyAscending(result.value.clausesArray)
    /\ strictlyAscending(result.value.tagsArray)

\* both lists hold several identifiers, the clauses were written from the highest down
\* and listed by two variables, the tags are listed by the first clause after those of
\* no other
C19_Witness ==
  /\ Resolved
  /\ Len(result.value.clausesArray) >= 3
  /\ Len(result.value.tagsArray) >= 3
  /\ call.template.listed = {"tenant", "landlord"}
  /\ Cardinality(call.assoc.tenant) >= 2
  /\ call.assoc.tenant \cap call.assoc.landlord # {}
  /\ MaxTag \in call.clauses[1].tags

\* the cases of the claim: a table empty, no row for the name, or an empty list
nothingToResolve(c) == c.absent # {} \/ ~c.template.found \/ c.template.listed = {}

\* C20: with a reference table empty, a template name without a row or an empty
\* Variable_Array, the resolver returns no clause, no tag and at least one diagnostic.
C20_EmptyWithDiagnostic ==
  (Resolved /\ nothingToResolve(call)) =>
    /\ result.value.clausesArray = <<>>
    /\ result.value.tagsArray = <<>>
    /\ Len(result.value.debug) > 0

\* the template row is found and its Variable_Array is blank
C20_Witness ==
  /\ Resolved
  /\ call.absent = {}
  /\ call.template.found
  /\ call.template.listed = {}
  /\ Len(result.value.debug) > 0

\* the rows of the Priority-first Tag table whose Tag_ID is in ids, in table order,
\* under the header row
rowsOfIds(ids) ==
  <<PriorityFirstTagsTable[1]>>
  \o [i \in 1..Cardinality(DeclaredTagIds \cap ids) |->
        PriorityFirstRow(CHOOSE t \in DeclaredTagIds \cap ids :
                           Cardinality({u \in DeclaredTagIds \cap ids : u < t}) = i - 1)]

\* C25: the restricted Tag table of a resolution cycle holds the header row and exactly
\* the data rows whose Tag_ID, read from the column headed Tag_ID, is in the tag universe.
C25_RowsOfIdColumn ==
  (result.fn = "recompute" /\ Len(result.value.clausesArray) > 0) =>
    result.value.filteredTagsTable = rowsOfIds(Range(result.value.tagsArray))

\* the mappings got from m by giving value 1 or -1 to any of the tags whose value is 0
\* or missing
definiteAnswers(m) ==
  UNION {{[t \in DOMAIN m \cup S |-> IF t \in S THEN g[t] ELSE m[t]] : g \in [S -> {1, -1}]} :
           S \in SUBSET {t \in TagIds : truthOf(m, t) = 0}}

\* every verdict 1 or -1 of verdicts is the same in later, and every clause unresolved
\* in later is unresolved in verdicts
staysDefinite(verdicts, later) ==
  /\ \A pc \in DOMAIN verdicts :
       verdicts[pc] \in {1, -1} => (pc \in DOMAIN later /\ later[pc] = verdicts[pc])
  /\ {pc \in DOMAIN later : later[pc] = 0} \subseteq {pc \in DOMAIN verdicts : verdicts[pc] = 0}

\* C26: a clause with verdict 1 or -1 under a mapping has the same verdict under every
\* mapping got from it by giving value 1 or -1 to tags of value 0 or missing, so the set
\* of unresolved clauses does not grow.
C26_DefiniteIsStable ==
  result.fn = "evaluateClauses" =>
    \A m \in definiteAnswers(call.assignedTags) :
      staysDefinite(result.value, evaluateClauses(m, call.filteredClausesTable))

\* one clause is included and one denied while a tag is still unknown
C26_Witness ==
  /\ result.fn = "evaluateClauses"
  /\ \E pc \in DOMAIN result.value : result.value[pc] = 1 /\ call.clauses[pc].inc # {}
  /\ \E pc \in DOMAIN result.value : result.value[pc] = -1
  /\ \E t \in TagIds : truthOf(call.assignedTags, t) = 0

\* the clauses of the clause universe that have a row in the Clause table
withRow(v, universe) == universe \cap (1..Len(v.clauses))

\* no clause of the universe without a row has a verdict or is among the unresolved
\* clauses; status ask rests on a clause with a row whose verdict is 0 as stated; every
\* tag asked is in the Tags_Array of a clause with a row
rowlessIgnored(v, universe) ==
  /\ (Range(universe) \ withRow(v, Range(universe))) \cap DOMAIN v.verdicts = {}
  /\ Range(unresolvedClausesOf(v.verdicts, universe)) \subseteq withRow(v, Range(universe))
  /\ v.status = "ask" =>
       \E pc \in withRow(v, Range(universe)) : statedVerdict(v.truth, v.clauses[pc]) = 0
  /\ v.batch \subseteq UNION {v.clauses[pc].tags : pc \in withRow(v, Range(universe))}

\* C28: a clause identifier of the clause universe without a row in the Clause table
\* gets no verdict and is not among the unresolved clauses, so status ask always rests
\* on an unresolved clause that has a row, and every question on such a clause's tags.
C28_RowlessClauseIgnored == Scheduled => rowlessIgnored(CycleView, result.value.clausesArray)

\* the universe holds a clause without a row, and the cycle ends in done
C28_Witness ==
  /\ Scheduled
  /\ Range(result.value.clausesArray) \ (1..Len(call.clauses)) # {}
  /\ result.value.status = "done"
  /\ call.answers # EmptyMap

(***************************************************************************)
(* the component over a template session                                   *)
(***************************************************************************)

\* C21: while a template is selected whose clause list resolved to nothing, the status
\* is empty-template, no question is held, the ratio is 0 and both restricted tables
\* are empty, that is, nothing was handed to the evaluators or the scheduler
C21_EmptyTemplate ==
  (selectedTemplate # <<>> /\ clausesArray = <<>>) =>
    /\ status = "empty-template"
    /\ nextQuestions = <<>>
    /\ ratioCompleted.num = 0
    /\ filteredTagsTable = <<>>
    /\ filteredClausesTable = <<>>

\* the template whose only variable is not of type Clause is selected
C21_Witness ==
  /\ selectedTemplate = S_Memo
  /\ clausesArray = <<>>
  /\ status = "empty-template"

\* C22: while the selected template stays the same, a step taken in status done ends
\* in status done: no answer to a displayed question leaves done, only a selection does
C22_DoneIsTerminal ==
  [][(status = "done" /\ selectedTemplate' = selectedTemplate) => status' = "done"]_vars

\* done was reached by answering the questions of the selected template
C22_Witness ==
  /\ status = "done"
  /\ selectedTemplate # <<>>
  /\ \E k \in DOMAIN answeredTags : answeredTags[k] # <<>>

\* C23: while a template is selected, the status, the question batch and the ratio the
\* component holds are those one recomputation yields for the selected template and
\* the answer mapping held, whatever selections, answers and inference attempts led
\* there and in whatever order
C23_AsFromScratch ==
  selectedTemplate # <<>> =>
    LET fresh == recompute(tables, selectedTemplate, answeredTags)
    IN /\ status = fresh.status
       /\ nextQuestions = fresh.nextQuestions
       /\ ratioCompleted = fresh.ratioCompleted

\* two tags were answered and an inference attempt has ended
C23_Witness ==
  /\ selectedTemplate # <<>>
  /\ Cardinality({k \in DOMAIN answeredTags : answeredTags[k] # <<>>}) >= 2
  /\ inferenceErrors > 0

\* C30: a step in which an inference attempt fails leaves the answer mapping, the
\* status, the question batch and the ratio as they were, and ends with inferring false
C30_FailedInferenceChangesNothing ==
  [][inferenceErrors' # inferenceErrors =>
       /\ answeredTags' = answeredTags
       /\ status' = status
       /\ nextQuestions' = nextQuestions
       /\ ratioCompleted' = ratioCompleted
       /\ inferring' = FALSE]_vars

\* an attempt has failed while questions were pending and an answer was held
C30_Witness ==
  /\ inferenceErrors > 0
  /\ ~inferring
  /\ status = "ask"
  /\ \E k \in DOMAIN answeredTags : answeredTags[k] # <<>>

\* the tags of value 1 or -1 under the truth mapping m
definiteTags(m) == {t \in DOMAIN m : m[t] \in {1, -1}}

\* C27: over a step that keeps the selected template, no tag of value 1 or -1 after the
\* step is in the question batch after the step, and every tag of value 1 or -1 before
\* the step has the same value after it
C27_DefiniteNotAskedAgain ==
  [][selectedTemplate' = selectedTemplate =>
       LET before == evaluateTagsBuildMode(answeredTags, filteredTagsTable)
           after == evaluateTagsBuildMode(answeredTags', filteredTagsTable')
       IN /\ \A t \in definiteTags(after) : t \notin Range(idsInOrder(nextQuestions'))
          /\ \A t \in definiteTags(before) : t \in DOMAIN after /\ after[t] = before[t]]_vars

\* another batch is asked after a tag has got the value 1 or -1
C27_Witness ==
  /\ status = "ask"
  /\ nextQuestions # <<>>
  /\ definiteTags(evaluateTagsBuildMode(answeredTags, filteredTagsTable)) # {}

====
